---- MODULE Spec2Model ----
(***************************************************************************)
(* A model of bed-reader (src/src/lib.rs): the two-bit genotype codec, the *)
(* indexed read path, the write path with its clean-up, and the count      *)
(* checks of the dataset handle and of the metadata bundle.                *)
(*                                                                         *)
(* The file system holds one dataset: a .bed file (a byte sequence) and    *)
(* the .fam and .bim sidecars.  Every public call is one action; its       *)
(* arguments and its result are recorded in wr (writes), bd (builds),      *)
(* rd (reads) and ac (metadata accesses).                                  *)
(***************************************************************************)
EXTENDS Integers, Sequences, FiniteSets, TLC

VARIABLES
    bed,     \* the .bed file: [exists, bytes]
    fam,     \* the .fam file: [exists, lines, six]
    bim,     \* the .bim file: [exists, lines, six]
    handle,  \* the Bed struct: [built, is_checked_early, iid_count, sid_count, metadata, skip_set]
    wr,      \* the last write call: arguments, result, files it created
    bd,      \* the last BedBuilder::build / MetadataBuilder::build call
    rd,      \* the last read call: arguments, result, output matrix
    ac,      \* the last metadata access: accessor, result
    ix,      \* the last evaluation of an index: Index::len, Index::to_vec
    par      \* a read or write in progress: the serial stage, the workers, the output

vars == <<bed, fam, bim, handle, wr, bd, rd, ac, ix, par>>

----------------------------------------------------------------------------
(* Bounds of the model.                                                    *)

\* largest iid_count (rows) of a dataset or matrix
MaxIid == 5
\* largest sid_count (columns) of a dataset or matrix
MaxSid == 2
\* matrices with at most this many cells are enumerated exhaustively
MaxFullCells == 3
\* longest signed position list used as an index
MaxIndexLen == 2
\* largest length of a supplied metadata field and of a sidecar file
MaxLen == 2
\* largest count an index of any kind is evaluated against
MaxCount == 3

----------------------------------------------------------------------------
(* Program constants.                                                      *)

BED_FILE_MAGIC1 == 108
BED_FILE_MAGIC2 == 27
CB_HEADER_U64 == 3
CB_HEADER_USIZE == 3

\* f64::NAN / f32::NAN, the floating-point default of Missing: a value that
\* PartialEq reports unequal to every value, itself included.
NaN == 1000
\* the i8 default of Missing
I8Missing == -127

\* PartialEq on TVal (==): NaN is equal to nothing.
ValEq(a, b) == a # NaN /\ b # NaN /\ a = b

\* Option<T>
None == [some |-> FALSE, v |-> 0]
Some(x) == [some |-> TRUE, v |-> x]

\* Result<_, BedErrorPlus>: the variant, and the value an index error carries.
Ok == [kind |-> "Ok", arg |-> 0]
Err(kind) == [kind |-> kind, arg |-> 0]
ErrArg(kind, k) == [kind |-> kind, arg |-> k]

Min(a, b) == IF a < b THEN a ELSE b

----------------------------------------------------------------------------
(* nd::Array2<TVal>: dimensions and cells, a[i][j] with 1 <= i <= nrows.   *)

\* nd::Array2::<TVal>::default(shape): every cell TVal::default()
DefaultArray(r, c) ==
    [nrows |-> r, ncols |-> c, a |-> [i \in 1..r |-> [j \in 1..c |-> 0]]]

\* ArrayViewMut2::reversed_axes: the same cells with the two axes swapped
reversed_axes(m) ==
    [nrows |-> m.ncols, ncols |-> m.nrows,
     a |-> [j \in 1..m.ncols |-> [i \in 1..m.nrows |-> m.a[i][j]]]]

----------------------------------------------------------------------------
(* Bit operations on u8.                                                   *)

RECURSIVE BitOr(_, _)
BitOr(a, b) ==
    IF a = 0 THEN b
    ELSE IF b = 0 THEN a
    ELSE (IF a % 2 = 1 \/ b % 2 = 1 THEN 1 ELSE 0) + 2 * BitOr(a \div 2, b \div 2)

RECURSIVE BitAnd(_, _)
BitAnd(a, b) ==
    IF a = 0 \/ b = 0 THEN 0
    ELSE (IF a % 2 = 1 /\ b % 2 = 1 THEN 1 ELSE 0) + 2 * BitAnd(a \div 2, b \div 2)

\* u8 << s: bits shifted beyond bit 7 are lost
Shl8(a, s) == (a * (2 ^ s)) % 256
\* u8 >> s
Shr8(a, s) == a \div (2 ^ s)

----------------------------------------------------------------------------
(* The codec: decode.                                                      *)

\* Max::max() for u64.  TLC's integers are 32-bit, so the largest of them
\* stands for u64::MAX; every count of the model is far below both.
U64_MAX == 2147483647

\* A variant the properties must tell from the code:
\* a guard that forgets the header bytes.
GuardWithoutHeader(in_iid_count, in_sid_count, cb_header, max) ==
    LET in_iid_count_div4 ==
            IF in_iid_count > 0 THEN (in_iid_count - 1) \div 4 + 1 ELSE 0
    IN  IF in_iid_count_div4 > max THEN [ok |-> FALSE, div4 |-> 0]
        ELSE IF in_sid_count > max THEN [ok |-> FALSE, div4 |-> 0]
        ELSE IF in_sid_count > 0 /\ max \div in_sid_count < in_iid_count_div4
             THEN [ok |-> FALSE, div4 |-> 0]
        ELSE [ok |-> TRUE, div4 |-> in_iid_count_div4]

\* try_div_4::<T>: bytes per packed block, or IndexesTooBigForFiles.  max is
\* T's Max::max(); T::try_from(n) fails when n > max.
try_div_4(in_iid_count, in_sid_count, cb_header, max) ==
    LET in_iid_count_div4 ==
            IF in_iid_count > 0 THEN (in_iid_count - 1) \div 4 + 1 ELSE 0
    IN  IF in_iid_count_div4 > max THEN [ok |-> FALSE, div4 |-> 0]
        ELSE IF in_sid_count > max THEN [ok |-> FALSE, div4 |-> 0]
        ELSE IF in_sid_count > 0
                /\ (max - cb_header) \div in_sid_count < in_iid_count_div4
             THEN [ok |-> FALSE, div4 |-> 0]
        ELSE [ok |-> TRUE, div4 |-> in_iid_count_div4]

\* A variant the properties must tell from the code:
\* a decode table with the two homozygous values exchanged.
SwappedTable(count_a1, missing_value) ==
    IF count_a1 THEN <<0, missing_value, 1, 2>> ELSE <<2, missing_value, 1, 0>>

\* set_up_two_bits_to_value: the lookup table, entry code + 1 for code 0..3
set_up_two_bits_to_value(count_a1, missing_value) ==
    IF count_a1 THEN <<2, missing_value, 1, 0>> ELSE <<0, missing_value, 1, 2>>

\* (0..=count-1).contains(k) and (-count..=-1).contains(k)
InUpper(k, count) == 0 <= k /\ k <= count - 1
InLower(k, count) == -count <= k /\ k <= -1
\* a signed position turned into an unsigned one (for k in one of the ranges)
ToUnsigned(k, count) == IF InUpper(k, count) THEN k ELSE count - (-k)

\* check_and_precompute_iid_index: the offending values, and per output row
\* the byte of the block and the shift inside it (position 0 for a bad value)
check_and_precompute_iid_index(in_iid_count, iid_index) ==
    LET ok(i) == InUpper(iid_index[i], in_iid_count) \/ InLower(iid_index[i], in_iid_count)
        in_iid_i(i) == IF ok(i) THEN ToUnsigned(iid_index[i], in_iid_count) ELSE 0
    IN  [errs |-> {iid_index[i] : i \in {x \in 1..Len(iid_index) : ~ok(x)}},
         i_div_4 |-> [i \in 1..Len(iid_index) |-> in_iid_i(i) \div 4],
         i_mod_4_times_2 |-> [i \in 1..Len(iid_index) |-> (in_iid_i(i) % 4) * 2]]

\* The serial stage for one column: seek to the block of position in_sid_i
\* and read_exact one block of in_iid_count_div4 bytes.
SeekAndRead(bytes, in_sid_i, in_iid_count_div4) ==
    LET pos == in_sid_i * in_iid_count_div4 + CB_HEADER_U64
    IN  SubSeq(bytes, pos + 1, pos + in_iid_count_div4)

\* The parallel stage for one cell: the two bits of output row out_iid_i
\* (1-based) of a block, through the lookup table.
DecodeCell(bytes_vector, pre, from_two_bits_to_value, out_iid_i) ==
    LET two_bits ==
            BitAnd(Shr8(bytes_vector[pre.i_div_4[out_iid_i] + 1],
                        pre.i_mod_4_times_2[out_iid_i]), 3)
    IN  from_two_bits_to_value[two_bits + 1]

\* internal_read_no_alloc: the set of outcomes [res, val] the call can have.
\* The zip of the column producer with the columns of out_val stops at the
\* shorter of the two; the decode of a column indexes col[out_iid_i] for
\* every position of iid_index and panics beyond the rows of out_val.  When
\* several positions are out of range, try_for_each over par_bridge may
\* report any of them.
internal_read_no_alloc(bytes, in_iid_count, in_sid_count, is_a1_counted, iid_index, sid_index, missing_value, out_val) ==
    LET d == try_div_4(in_iid_count, in_sid_count, CB_HEADER_U64, U64_MAX)
        file_len == Len(bytes)
        file_len2 == d.div4 * in_sid_count + CB_HEADER_U64
        pre == check_and_precompute_iid_index(in_iid_count, iid_index)
        from_two_bits_to_value == set_up_two_bits_to_value(is_a1_counted, missing_value)
        n == Min(Len(sid_index), out_val.ncols)
        good(j) == InUpper(sid_index[j], in_sid_count) \/ InLower(sid_index[j], in_sid_count)
        badCols == {j \in 1..n : ~good(j)}
        done == {j \in 1..n : \A b \in badCols : j < b}
        panics == Len(iid_index) > out_val.nrows /\ \E j \in 1..n : good(j)
        cell(i, j) ==
            IF j \in done /\ i <= Len(iid_index)
            THEN DecodeCell(SeekAndRead(bytes, ToUnsigned(sid_index[j], in_sid_count), d.div4),
                            pre, from_two_bits_to_value, i)
            ELSE out_val.a[i][j]
        filled == [out_val EXCEPT !.a =
                      [i \in 1..out_val.nrows |-> [j \in 1..out_val.ncols |-> cell(i, j)]]]
    IN  IF ~d.ok THEN {[res |-> Err("IndexesTooBigForFiles"), val |-> out_val]}
        ELSE IF file_len # file_len2 THEN {[res |-> Err("IllFormed"), val |-> out_val]}
        ELSE IF pre.errs # {}
             THEN {[res |-> ErrArg("IidIndexTooBig", k), val |-> out_val] : k \in pre.errs}
        ELSE IF panics
             THEN {[res |-> Err("Panic"), val |-> out_val]}
                  \cup {[res |-> ErrArg("SidIndexTooBig", sid_index[j]), val |-> out_val] :
                            j \in badCols}
        ELSE IF badCols # {}
             THEN {[res |-> ErrArg("SidIndexTooBig", sid_index[j]), val |-> filled] :
                       j \in badCols}
        ELSE {[res |-> Ok, val |-> filled]}

\* open_and_check: File::open, read_exact of the three header bytes, the
\* two magic bytes.
open_and_check(file) ==
    IF ~file.exists THEN Err("IOError")
    ELSE IF Len(file.bytes) < CB_HEADER_USIZE THEN Err("IOError")
    ELSE IF BED_FILE_MAGIC1 # file.bytes[1] \/ BED_FILE_MAGIC2 # file.bytes[2]
         THEN Err("IllFormed")
    ELSE Ok

\* A variant the properties must tell from the code:
\* a read that ignores the orientation byte.
NoSwapRead(file, iid_count, sid_count, is_a1_counted, iid_index, sid_index, missing_value, val) ==
    LET chk == open_and_check(file)
    IN  IF chk.kind # "Ok" THEN {[res |-> chk, val |-> val]}
        ELSE IF file.bytes[3] \in {0, 1}
             THEN internal_read_no_alloc(file.bytes, iid_count, sid_count, is_a1_counted,
                                         iid_index, sid_index, missing_value, val)
        ELSE {[res |-> Err("BadMode"), val |-> val]}

\* read_no_alloc: the header check, then the decode in the orientation the
\* third byte selects.  For orientation 0 the counts and the indices are
\* swapped and the output view has its axes reversed.
read_no_alloc(file, iid_count, sid_count, is_a1_counted, iid_index, sid_index, missing_value, val) ==
    LET chk == open_and_check(file)
    IN  IF chk.kind # "Ok" THEN {[res |-> chk, val |-> val]}
        ELSE IF file.bytes[3] = 0
             THEN {[res |-> o.res, val |-> reversed_axes(o.val)] :
                      o \in internal_read_no_alloc(file.bytes, sid_count, iid_count,
                                                   is_a1_counted, sid_index, iid_index,
                                                   missing_value, reversed_axes(val))}
        ELSE IF file.bytes[3] = 1
             THEN internal_read_no_alloc(file.bytes, iid_count, sid_count, is_a1_counted,
                                         iid_index, sid_index, missing_value, val)
        ELSE {[res |-> Err("BadMode"), val |-> val]}

----------------------------------------------------------------------------
(* The codec: encode.                                                      *)

\* A file that does not exist, and a file with the given bytes.
NoBed == [exists |-> FALSE, bytes |-> <<>>]
BedOf(bytes) == [exists |-> TRUE, bytes |-> bytes]

\* A variant the properties must tell from the code:
\* an encoding with the codes of 1 and of missing exchanged.
HetMissingSwappedCode(v0, is_a1_counted, missing) ==
    LET use_nan == ~ValEq(missing, missing)
        zero_code == IF is_a1_counted THEN 3 ELSE 0
        two_code == IF is_a1_counted THEN 0 ELSE 3
    IN  IF ValEq(v0, 0) THEN [ok |-> TRUE, code |-> zero_code]
        ELSE IF ValEq(v0, 1) THEN [ok |-> TRUE, code |-> 1]
        ELSE IF ValEq(v0, 2) THEN [ok |-> TRUE, code |-> two_code]
        ELSE IF (use_nan /\ ~ValEq(v0, v0)) \/ (~use_nan /\ ValEq(v0, missing))
             THEN [ok |-> TRUE, code |-> 2]
        ELSE [ok |-> FALSE, code |-> 0]

\* write_internal, the value-to-code chain of one cell: [ok, code]
genotype_byte(v0, is_a1_counted, missing) ==
    LET use_nan == ~ValEq(missing, missing)
        zero_code == IF is_a1_counted THEN 3 ELSE 0
        two_code == IF is_a1_counted THEN 0 ELSE 3
        homozygous_primary_allele == 0
        heterozygous_allele == 1
        homozygous_secondary_allele == 2
    IN  IF ValEq(v0, homozygous_primary_allele) THEN [ok |-> TRUE, code |-> zero_code]
        ELSE IF ValEq(v0, heterozygous_allele) THEN [ok |-> TRUE, code |-> 2]
        ELSE IF ValEq(v0, homozygous_secondary_allele) THEN [ok |-> TRUE, code |-> two_code]
        ELSE IF (use_nan /\ ~ValEq(v0, v0)) \/ (~use_nan /\ ValEq(v0, missing))
             THEN [ok |-> TRUE, code |-> 1]
        ELSE [ok |-> FALSE, code |-> 0]

\* write_internal, the closure that packs one column: cells iid_i.. of the
\* column are or-ed into bytes_vector; [ok, bytes], ok FALSE for BadValue.
RECURSIVE encode_column(_, _, _, _, _)
encode_column(column, iid_i, bytes_vector, is_a1_counted, missing) ==
    IF iid_i >= Len(column) THEN [ok |-> TRUE, bytes |-> bytes_vector]
    ELSE LET g == genotype_byte(column[iid_i + 1], is_a1_counted, missing)
             i_div_4 == iid_i \div 4
             i_mod_4 == iid_i % 4
         IN  IF ~g.ok THEN [ok |-> FALSE, bytes |-> bytes_vector]
             ELSE encode_column(column, iid_i + 1,
                                [bytes_vector EXCEPT ![i_div_4 + 1] =
                                    BitOr(@, Shl8(g.code, i_mod_4 * 2))],
                                is_a1_counted, missing)

\* val.axis_iter(Axis(1)): column j of the matrix
Column(val, j) == [i \in 1..val.nrows |-> val.a[i][j]]

\* the packed block of column j: vec![0; iid_count_div4], then the cells
PackedBlock(val, j, iid_count_div4, is_a1_counted, missing) ==
    encode_column(Column(val, j), 0, [k \in 1..iid_count_div4 |-> 0],
                  is_a1_counted, missing)

RECURSIVE ConcatBlocks(_, _, _, _, _, _)
ConcatBlocks(val, j, upto, iid_count_div4, is_a1_counted, missing) ==
    IF j > upto THEN <<>>
    ELSE PackedBlock(val, j, iid_count_div4, is_a1_counted, missing).bytes
         \o ConcatBlocks(val, j + 1, upto, iid_count_div4, is_a1_counted, missing)

\* The places at which the environment can make a write fail.
IoFailPoints ==
    {"none", "num_threads", "bed_create", "bed_write",
     "fam_create", "fam_write", "bim_create", "bim_write"}

\* A variant the properties must tell from the code:
\* a write that stores the blocks last column first.
ReversedBlocksWrite(file, iid_count_div4, val, is_a1_counted, missing, fail) ==
    LET header == <<BED_FILE_MAGIC1, BED_FILE_MAGIC2, 1>>
        RECURSIVE Rev(_)
        Rev(j) == IF j < 1 THEN <<>>
                  ELSE PackedBlock(val, j, iid_count_div4, is_a1_counted, missing).bytes
                       \o Rev(j - 1)
        badCols == {j \in 1..val.ncols :
                       ~PackedBlock(val, j, iid_count_div4, is_a1_counted, missing).ok}
    IN  IF fail = "bed_create"
        THEN [res |-> Err("IOError"), file |-> file, created |-> FALSE]
        ELSE IF fail = "bed_write"
        THEN [res |-> Err("IOError"), file |-> BedOf(<<>>), created |-> TRUE]
        ELSE IF badCols # {}
        THEN [res |-> Err("BadValue"), file |-> BedOf(header), created |-> TRUE]
        ELSE [res |-> Ok, file |-> BedOf(header \o Rev(val.ncols)), created |-> TRUE]

\* write_internal: File::create, the header, then the blocks in column
\* order up to the first column with a bad value.  [res, file, created]
write_internal(file, iid_count_div4, val, is_a1_counted, missing, fail) ==
    LET header == <<BED_FILE_MAGIC1, BED_FILE_MAGIC2, 1>>
        badCols == {j \in 1..val.ncols :
                       ~PackedBlock(val, j, iid_count_div4, is_a1_counted, missing).ok}
        written == {j \in 1..val.ncols : \A b \in badCols : j < b}
        blocks == ConcatBlocks(val, 1, Cardinality(written), iid_count_div4,
                               is_a1_counted, missing)
    IN  IF fail = "bed_create"
        THEN [res |-> Err("IOError"), file |-> file, created |-> FALSE]
        ELSE IF fail = "bed_write"
        THEN [res |-> Err("IOError"), file |-> BedOf(<<>>), created |-> TRUE]
        ELSE IF badCols # {}
        THEN [res |-> Err("BadValue"), file |-> BedOf(header \o blocks), created |-> TRUE]
        ELSE [res |-> Ok, file |-> BedOf(header \o blocks), created |-> TRUE]

\* fs::remove_file with its result discarded: a file this call created is
\* removed; a file that could not be created is, when one is there, removed
\* or left according to the permissions that made the creation fail.
remove_file(file, created, absent) ==
    IF created \/ ~file.exists THEN {absent} ELSE {file, absent}

\* A variant the properties must tell from the code:
\* a write_val that leaves the file behind on an error.
NoCleanUpWriteVal(file, val, is_a1_counted, missing, fail) ==
    LET d == try_div_4(val.nrows, val.ncols, CB_HEADER_U64, U64_MAX)
    IN  IF ~d.ok THEN {[res |-> Err("IndexesTooBigForFiles"), file |-> file, created |-> FALSE]}
        ELSE {write_internal(file, d.div4, val, is_a1_counted, missing, fail)}

\* write_val: the block size, write_internal, and on its error
\* fs::remove_file(path).  The set of outcomes [res, file, created]
write_val(file, val, is_a1_counted, missing, fail) ==
    LET d == try_div_4(val.nrows, val.ncols, CB_HEADER_U64, U64_MAX)
        w == write_internal(file, d.div4, val, is_a1_counted, missing, fail)
    IN  IF ~d.ok THEN {[res |-> Err("IndexesTooBigForFiles"), file |-> file, created |-> FALSE]}
        ELSE IF w.res.kind # "Ok"
        THEN {[w EXCEPT !.file = f] : f \in remove_file(w.file, w.created, NoBed)}
        ELSE {w}

----------------------------------------------------------------------------
(* Metadata and the sidecar files.  A metadata array is kept as its        *)
(* length and where its values came from; a sidecar file as its number of  *)
(* lines and whether every line has six fields.                            *)

FamFields == <<"fid", "iid", "father", "mother", "sex", "pheno">>
BimFields == <<"chromosome", "sid", "cm_position", "bp_position", "allele_1", "allele_2">>
Range(s) == {s[i] : i \in 1..Len(s)}
MetadataFields == Range(FamFields) \cup Range(BimFields)

Arr(len, src) == [len |-> len, src |-> src]
NoArr == [some |-> FALSE, v |-> Arr(0, "none")]
SomeArr(len, src) == [some |-> TRUE, v |-> Arr(len, src)]

NoSidecar == [exists |-> FALSE, lines |-> 0, six |-> TRUE]
Sidecar(lines, six) == [exists |-> TRUE, lines |-> lines, six |-> six]

\* Metadata::new(): every field None
MetadataNew == [f \in MetadataFields |-> NoArr]

lazy_or_skip_count(array) == IF array.some THEN Some(array.v.len) ELSE None

\* A variant the properties must tell from the code:
\* a check_counts that never compares two counts.
RECURSIVE FirstCountWins(_, _, _)
FirstCountWins(count_vec, i, option_xid_count) ==
    IF i > Len(count_vec) THEN [res |-> Ok, count |-> option_xid_count]
    ELSE IF count_vec[i].some /\ ~option_xid_count.some
         THEN FirstCountWins(count_vec, i + 1, count_vec[i])
         ELSE FirstCountWins(count_vec, i + 1, option_xid_count)

\* check_counts: the loop over count_vec from position i; [res, count]
RECURSIVE check_counts(_, _, _)
check_counts(count_vec, i, option_xid_count) ==
    IF i > Len(count_vec) THEN [res |-> Ok, count |-> option_xid_count]
    ELSE IF ~count_vec[i].some
         THEN check_counts(count_vec, i + 1, option_xid_count)
    ELSE IF option_xid_count.some
         THEN IF option_xid_count.v # count_vec[i].v
              THEN [res |-> ErrArg("InconsistentCount", option_xid_count.v),
                    count |-> option_xid_count]
              ELSE check_counts(count_vec, i + 1, option_xid_count)
    ELSE check_counts(count_vec, i + 1, count_vec[i])

CountVec(metadata, fields) ==
    [i \in 1..Len(fields) |-> lazy_or_skip_count(metadata[fields[i]])]

\* MetadataBuilder::build: the two check_counts with no declared count
MetadataBuilder_build(metadata) ==
    LET ci == check_counts(CountVec(metadata, FamFields), 1, None)
        cs == check_counts(CountVec(metadata, BimFields), 1, None)
    IN  IF ci.res.kind # "Ok" THEN ci.res
        ELSE IF cs.res.kind # "Ok" THEN cs.res
        ELSE Ok

\* count_lines
count_lines(file) ==
    IF ~file.exists THEN [res |-> Err("IOError"), count |-> 0]
    ELSE [res |-> Ok, count |-> file.lines]

\* A variant the properties must tell from the code:
\* a parse that stores every non-skipped field of the sidecar, present or not.
ReparseAll(metadata, fields, file, skip_set) ==
    IF ~file.exists THEN [res |-> Err("IOError"), metadata |-> metadata, count |-> 0]
    ELSE IF ~file.six /\ file.lines > 0
    THEN [res |-> Err("MetadataFieldCount"), metadata |-> metadata, count |-> 0]
    ELSE [res |-> Ok,
          metadata |-> [f \in MetadataFields |->
                           IF f \in Range(fields) /\ f \notin skip_set
                           THEN SomeArr(file.lines, "file")
                           ELSE metadata[f]],
          count |-> file.lines]

\* Metadata::read_fam / read_bim over read_fam_or_bim: the file is opened
\* and every line counted whatever fields are wanted; a line without six
\* fields is MetadataFieldCount.  [res, metadata, count]
read_fam_or_bim(metadata, fields, file, skip_set) ==
    IF ~file.exists THEN [res |-> Err("IOError"), metadata |-> metadata, count |-> 0]
    ELSE IF ~file.six /\ file.lines > 0
    THEN [res |-> Err("MetadataFieldCount"), metadata |-> metadata, count |-> 0]
    ELSE [res |-> Ok,
          metadata |-> [f \in MetadataFields |->
                           IF f \in Range(fields) /\ ~metadata[f].some /\ f \notin skip_set
                           THEN SomeArr(file.lines, "file")
                           ELSE metadata[f]],
          count |-> file.lines]

\* The handle before it is built.
NoHandle ==
    [built |-> FALSE, is_checked_early |-> TRUE, iid_count |-> None,
     sid_count |-> None, metadata |-> MetadataNew, skip_set |-> {}]

\* Bed::iid_count / Bed::sid_count: the cached count, else count_lines
\* of the sidecar, cached.  [res, count, h]
Bed_iid_count(h, famfile) ==
    IF h.iid_count.some THEN [res |-> Ok, count |-> h.iid_count.v, h |-> h]
    ELSE LET c == count_lines(famfile)
         IN  IF c.res.kind # "Ok" THEN [res |-> c.res, count |-> 0, h |-> h]
             ELSE [res |-> Ok, count |-> c.count,
                   h |-> [h EXCEPT !.iid_count = Some(c.count)]]
Bed_sid_count(h, bimfile) ==
    IF h.sid_count.some THEN [res |-> Ok, count |-> h.sid_count.v, h |-> h]
    ELSE LET c == count_lines(bimfile)
         IN  IF c.res.kind # "Ok" THEN [res |-> c.res, count |-> 0, h |-> h]
             ELSE [res |-> Ok, count |-> c.count,
                   h |-> [h EXCEPT !.sid_count = Some(c.count)]]

\* Bed::fam / Bed::bim: parse the sidecar, store the metadata, then
\* compare the line count with the count already known.  [res, h]
Bed_fam(h, famfile) ==
    LET r == read_fam_or_bim(h.metadata, FamFields, famfile, h.skip_set)
        h1 == [h EXCEPT !.metadata = r.metadata]
    IN  IF r.res.kind # "Ok" THEN [res |-> r.res, h |-> h]
        ELSE IF h.iid_count.some
        THEN IF h.iid_count.v # r.count
             THEN [res |-> ErrArg("InconsistentCount", h.iid_count.v), h |-> h1]
             ELSE [res |-> Ok, h |-> h1]
        ELSE [res |-> Ok, h |-> [h1 EXCEPT !.iid_count = Some(r.count)]]
Bed_bim(h, bimfile) ==
    LET r == read_fam_or_bim(h.metadata, BimFields, bimfile, h.skip_set)
        h1 == [h EXCEPT !.metadata = r.metadata]
    IN  IF r.res.kind # "Ok" THEN [res |-> r.res, h |-> h]
        ELSE IF h.sid_count.some
        THEN IF h.sid_count.v # r.count
             THEN [res |-> ErrArg("InconsistentCount", h.sid_count.v), h |-> h1]
             ELSE [res |-> Ok, h |-> h1]
        ELSE [res |-> Ok, h |-> [h1 EXCEPT !.sid_count = Some(r.count)]]

\* Bed::metadata: fam()?, bim()?, then the clone
Bed_metadata(h, famfile, bimfile) ==
    LET f == Bed_fam(h, famfile)
        b == Bed_bim(f.h, bimfile)
    IN  IF f.res.kind # "Ok" THEN f ELSE b

\* A variant the properties must tell from the code:
\* an accessor that does not look at the skip set.
SkipUncheckedField(h, field, famfile, bimfile) ==
    IF ~h.metadata[field].some
    THEN IF field \in Range(FamFields) THEN Bed_fam(h, famfile) ELSE Bed_bim(h, bimfile)
    ELSE [res |-> Ok, h |-> h]

\* A field accessor (Bed::fid, ..., Bed::allele_2) over unlazy_fam /
\* unlazy_bim: a skipped field is refused, a None field parses the sidecar.
Bed_field(h, field, famfile, bimfile) ==
    IF field \in h.skip_set THEN [res |-> Err("CannotUseSkippedMetadata"), h |-> h]
    ELSE IF ~h.metadata[field].some
    THEN IF field \in Range(FamFields) THEN Bed_fam(h, famfile) ELSE Bed_bim(h, bimfile)
    ELSE [res |-> Ok, h |-> h]

\* BedBuilder::build: the struct, the early header check unless skipped,
\* then the count checks of the given fields.  [res, h]
BedBuilder_build(is_checked_early, iid_count, sid_count, metadata, skip_set, bedfile) ==
    LET b == [built |-> TRUE, is_checked_early |-> is_checked_early,
              iid_count |-> iid_count, sid_count |-> sid_count,
              metadata |-> metadata, skip_set |-> skip_set]
        chk == IF is_checked_early THEN open_and_check(bedfile) ELSE Ok
        ci == check_counts(CountVec(metadata, FamFields), 1, iid_count)
        cs == check_counts(CountVec(metadata, BimFields), 1, sid_count)
    IN  IF chk.kind # "Ok" THEN [res |-> chk, h |-> NoHandle]
        ELSE IF ci.res.kind # "Ok" THEN [res |-> ci.res, h |-> NoHandle]
        ELSE IF cs.res.kind # "Ok" THEN [res |-> cs.res, h |-> NoHandle]
        ELSE [res |-> Ok, h |-> [b EXCEPT !.iid_count = ci.count, !.sid_count = cs.count]]

----------------------------------------------------------------------------
(* Index: what a read selects along one axis.                              *)

\* fields: one (One), vec (Vec, NDArray), mask (VecBool, NDArrayBool),
\* start and end (RangeAny: Option<usize>; NDSliceInfo: isize and
\* Option<isize>), step (NDSliceInfo), elem (NDSliceInfo: the kind of its
\* SliceInfoElem)
IndexAll ==
    [kind |-> "All", one |-> 0, vec |-> <<>>, mask |-> <<>>,
     start |-> None, end |-> None, step |-> 1, elem |-> "Slice"]
IndexOne(k) == [IndexAll EXCEPT !.kind = "One", !.one = k]
IndexVec(v) == [IndexAll EXCEPT !.kind = "Vec", !.vec = v]
IndexNDArray(v) == [IndexAll EXCEPT !.kind = "NDArray", !.vec = v]
IndexVecBool(m) == [IndexAll EXCEPT !.kind = "VecBool", !.mask = m]
IndexNDArrayBool(m) == [IndexAll EXCEPT !.kind = "NDArrayBool", !.mask = m]
IndexRangeAny(start, end) ==
    [IndexAll EXCEPT !.kind = "RangeAny", !.start = start, !.end = end]
\* a SliceInfo1 holds one SliceInfoElem::Slice {start, end, step}
IndexNDSliceInfo(start, end, step) ==
    [IndexAll EXCEPT !.kind = "NDSliceInfo", !.start = Some(start), !.end = end,
                     !.step = step]

\* a SliceInfo1 made (with the unsafe SliceInfo::new) of a
\* SliceInfoElem::NewAxis or of a SliceInfoElem::Index(i), i >= 0
IndexNDSliceNewAxis == [IndexAll EXCEPT !.kind = "NDSliceInfo", !.elem = "NewAxis"]
IndexNDSliceIndex(i) ==
    [IndexAll EXCEPT !.kind = "NDSliceInfo", !.elem = "Index", !.start = Some(i)]

\* RangeAny::to_range: [res, start, end]
RangeAny_to_range(index, count) ==
    LET start == IF index.start.some THEN index.start.v ELSE 0
        end == IF index.end.some THEN index.end.v ELSE count
    IN  IF start > end
        THEN [res |-> ErrArg("StartGreaterThanEnd", start), start |-> start, end |-> end]
        ELSE [res |-> Ok, start |-> start, end |-> end]

\* RangeAny::len: [res, len]
RangeAny_len(index, count) ==
    LET range == RangeAny_to_range(index, count)
    IN  IF range.res.kind # "Ok" THEN [res |-> range.res, len |-> 0]
        ELSE [res |-> Ok, len |-> range.end - range.start]

div_ceil(a, b) == (a + b - 1) \div b

\* A variant the properties must tell from the code:
\* a negative start taken as its absolute value.
StartNotFromBack(index, count) ==
    LET start == index.start.v
        step == index.step
        bad(kind, k) == [res |-> ErrArg(kind, k), start |-> 0, end |-> 0, step |-> 1,
                         is_reversed |-> FALSE]
        step2 == IF step > 0 THEN step ELSE -step
        start3 == IF start >= 0 THEN start ELSE -start
        end3 == IF index.end.v >= 0 THEN index.end.v ELSE -index.end.v
        end2 == IF ~index.end.some THEN count
                ELSE IF index.end.v >= 0 THEN end3 ELSE count - end3
    IN  IF index.elem = "NewAxis" THEN bad("NewAxis", 0)
        ELSE IF index.elem = "Index"
        THEN [res |-> Ok, start |-> start, end |-> start + 1, step |-> 1,
              is_reversed |-> FALSE]
        ELSE IF step = 0 THEN bad("StepZero", 0)
        ELSE IF start3 > count THEN bad("StartGreaterThanCount", start3)
        ELSE IF index.end.some /\ end3 > count THEN bad("EndGreaterThanCount", end3)
        ELSE [res |-> Ok, start |-> start3, end |-> end2, step |-> step2,
              is_reversed |-> step < 0]

\* RangeNdSlice::new: [res, start, end, step, is_reversed].  The dimension
\* test (NdSliceInfoNot1D) is on the type's dimensions, both 1 for a
\* SliceInfo1.
RangeNdSlice_new(index, count) ==
    LET start == index.start.v
        step == index.step
        bad(kind, k) == [res |-> ErrArg(kind, k), start |-> 0, end |-> 0, step |-> 1,
                         is_reversed |-> FALSE]
        step2 == IF step > 0 THEN step ELSE -step
        start3 == IF start >= 0 THEN start ELSE -start
        start2 == IF start >= 0 THEN start3 ELSE count - start3
        end3 == IF index.end.v >= 0 THEN index.end.v ELSE -index.end.v
        end2 == IF ~index.end.some THEN count
                ELSE IF index.end.v >= 0 THEN end3 ELSE count - end3
    IN  IF index.elem = "NewAxis" THEN bad("NewAxis", 0)
        ELSE IF index.elem = "Index"
        THEN [res |-> Ok, start |-> start, end |-> start + 1, step |-> 1,
              is_reversed |-> FALSE]
        ELSE IF step = 0 THEN bad("StepZero", 0)
        ELSE IF start3 > count THEN bad("StartGreaterThanCount", start3)
        ELSE IF index.end.some /\ end3 > count THEN bad("EndGreaterThanCount", end3)
        ELSE [res |-> Ok, start |-> start2, end |-> end2, step |-> step2,
              is_reversed |-> step < 0]

\* RangeNdSlice::len
RangeNdSlice_len(r) ==
    IF r.start > r.end THEN 0 ELSE div_ceil(r.end - r.start, r.step)

\* A variant the properties must tell from the code:
\* a reversed slice as the forward positions in reverse order.
ReverseOfForward(r) ==
    LET forward == {k \in 0..r.end : r.start + k * r.step < r.end}
        n == Cardinality(forward)
    IN  IF r.start > r.end THEN [res |-> Ok, vec |-> <<>>]
        ELSE IF ~r.is_reversed
        THEN [res |-> Ok, vec |-> [i \in 1..n |-> r.start + (i - 1) * r.step]]
        ELSE IF r.end = 0 THEN [res |-> Err("Panic"), vec |-> <<>>]
        ELSE [res |-> Ok, vec |-> [i \in 1..n |-> r.start + (n - i) * r.step]]

\* RangeNdSlice::to_vec: [res, vec].  Forward, start..end stepped by step.
\* Reversed, the loop from end - 1 down by step while i >= start; with
\* end = 0 the usize end - 1 overflows: a panic in a build with overflow
\* checks, otherwise a wrapped i and a loop that pushes until memory is
\* exhausted: in neither build does the call return ("Panic").
RangeNdSlice_to_vec(r) ==
    LET forward == {k \in 0..r.end : r.start + k * r.step < r.end}
        backward == {k \in 0..r.end : r.end - 1 - k * r.step >= r.start}
    IN  IF r.start > r.end THEN [res |-> Ok, vec |-> <<>>]
        ELSE IF ~r.is_reversed
        THEN [res |-> Ok,
              vec |-> [i \in 1..Cardinality(forward) |-> r.start + (i - 1) * r.step]]
        ELSE IF r.end = 0 THEN [res |-> Err("Panic"), vec |-> <<>>]
        ELSE [res |-> Ok,
              vec |-> [i \in 1..Cardinality(backward) |-> r.end - 1 - (i - 1) * r.step]]

\* iter().filter(|&b| *b).count()
CountTrue(mask) == Cardinality({i \in 1..Len(mask) : mask[i]})

\* iter().enumerate().filter(|(_, b)| **b).map(|(i, _)| i as isize).collect()
TruePositions(mask) ==
    SelectSeq([i \in 1..Len(mask) |-> i - 1], LAMBDA p : mask[p + 1])

\* Index::len: [res, len]
Index_len(index, count) ==
    IF index.kind = "All" THEN [res |-> Ok, len |-> count]
    ELSE IF index.kind = "One" THEN [res |-> Ok, len |-> 1]
    ELSE IF index.kind \in {"Vec", "NDArray"} THEN [res |-> Ok, len |-> Len(index.vec)]
    ELSE IF index.kind \in {"VecBool", "NDArrayBool"}
    THEN [res |-> Ok, len |-> CountTrue(index.mask)]
    ELSE IF index.kind = "NDSliceInfo"
    THEN LET r == RangeNdSlice_new(index, count)
         IN  IF r.res.kind # "Ok" THEN [res |-> r.res, len |-> 0]
             ELSE [res |-> Ok, len |-> RangeNdSlice_len(r)]
    ELSE RangeAny_len(index, count)

\* A variant the properties must tell from the code:
\* a materialization that resolves the negative positions of One, Vec and
\* NDArray.
ResolvingToVec(index, count) ==
    IF index.kind = "All" THEN [res |-> Ok, vec |-> [i \in 1..count |-> i - 1]]
    ELSE IF index.kind = "One"
    THEN [res |-> Ok, vec |-> <<ToUnsigned(index.one, count)>>]
    ELSE IF index.kind \in {"Vec", "NDArray"}
    THEN [res |-> Ok,
          vec |-> [i \in 1..Len(index.vec) |-> ToUnsigned(index.vec[i], count)]]
    ELSE IF index.kind \in {"VecBool", "NDArrayBool"}
    THEN IF Len(index.mask) # count
         THEN [res |-> ErrArg("BoolArrayVectorWrongLength", count), vec |-> <<>>]
         ELSE [res |-> Ok, vec |-> TruePositions(index.mask)]
    ELSE IF index.kind = "NDSliceInfo"
    THEN LET r == RangeNdSlice_new(index, count)
         IN  IF r.res.kind # "Ok" THEN [res |-> r.res, vec |-> <<>>]
             ELSE RangeNdSlice_to_vec(r)
    ELSE LET range == RangeAny_to_range(index, count)
         IN  IF range.res.kind # "Ok" THEN [res |-> range.res, vec |-> <<>>]
             ELSE [res |-> Ok,
                   vec |-> [i \in 1..(range.end - range.start) |-> range.start + i - 1]]

\* Index::to_vec: [res, vec]
Index_to_vec(index, count) ==
    IF index.kind = "All" THEN [res |-> Ok, vec |-> [i \in 1..count |-> i - 1]]
    ELSE IF index.kind = "One" THEN [res |-> Ok, vec |-> <<index.one>>]
    ELSE IF index.kind \in {"Vec", "NDArray"} THEN [res |-> Ok, vec |-> index.vec]
    ELSE IF index.kind \in {"VecBool", "NDArrayBool"}
    THEN IF Len(index.mask) # count
         THEN [res |-> ErrArg("BoolArrayVectorWrongLength", count), vec |-> <<>>]
         ELSE [res |-> Ok, vec |-> TruePositions(index.mask)]
    ELSE IF index.kind = "NDSliceInfo"
    THEN LET r == RangeNdSlice_new(index, count)
         IN  IF r.res.kind # "Ok" THEN [res |-> r.res, vec |-> <<>>]
             ELSE RangeNdSlice_to_vec(r)
    ELSE LET range == RangeAny_to_range(index, count)
         IN  IF range.res.kind # "Ok" THEN [res |-> range.res, vec |-> <<>>]
             ELSE [res |-> Ok,
                   vec |-> [i \in 1..(range.end - range.start) |-> range.start + i - 1]]

\* Hold::new: the vector of Index::Vec borrowed, Index::to_vec otherwise
Hold_new(index, count) ==
    IF index.kind = "Vec" THEN [res |-> Ok, vec |-> index.vec]
    ELSE Index_to_vec(index, count)

----------------------------------------------------------------------------
(* The read calls.  Each gives the set of outcomes [res, val, h]: the      *)
(* result, the output matrix and the handle with the counts it cached.     *)

ReadApis ==
    {"Bed::read_with_options", "Bed::read_and_fill_with_options",
     "ReadOptionsBuilder::read_and_fill", "Bed::read_and_fill"}

\* Bed::read_and_fill_with_options
read_and_fill_with_options(h, bedfile, famfile, bimfile, val, iid_index, sid_index, is_a1_counted, missing_value) ==
    LET ic == Bed_iid_count(h, famfile)
        sc == Bed_sid_count(ic.h, bimfile)
        iid_hold == Hold_new(iid_index, ic.count)
        sid_hold == Hold_new(sid_index, sc.count)
    IN  IF ic.res.kind # "Ok" THEN {[res |-> ic.res, val |-> val, h |-> ic.h]}
        ELSE IF sc.res.kind # "Ok" THEN {[res |-> sc.res, val |-> val, h |-> sc.h]}
        ELSE IF iid_hold.res.kind # "Ok"
        THEN {[res |-> iid_hold.res, val |-> val, h |-> sc.h]}
        ELSE IF sid_hold.res.kind # "Ok"
        THEN {[res |-> sid_hold.res, val |-> val, h |-> sc.h]}
        ELSE IF <<val.nrows, val.ncols>> # <<Len(iid_hold.vec), Len(sid_hold.vec)>>
        THEN {[res |-> Err("InvalidShape"), val |-> val, h |-> sc.h]}
        ELSE {[res |-> o.res, val |-> o.val, h |-> sc.h] :
                 o \in read_no_alloc(bedfile, ic.count, sc.count, is_a1_counted,
                                     iid_hold.vec, sid_hold.vec, missing_value, val)}

\* Bed::read_and_fill: the default ReadOptions (both indexes All,
\* is_a1_counted true, the type's missing value), the counts, read_no_alloc
read_and_fill(h, bedfile, famfile, bimfile, val, type_missing) ==
    LET ic == Bed_iid_count(h, famfile)
        sc == Bed_sid_count(ic.h, bimfile)
        iid_vec == Index_to_vec(IndexAll, ic.count).vec
        sid_vec == Index_to_vec(IndexAll, sc.count).vec
    IN  IF ic.res.kind # "Ok" THEN {[res |-> ic.res, val |-> val, h |-> ic.h]}
        ELSE IF sc.res.kind # "Ok" THEN {[res |-> sc.res, val |-> val, h |-> sc.h]}
        ELSE {[res |-> o.res, val |-> o.val, h |-> sc.h] :
                 o \in read_no_alloc(bedfile, ic.count, sc.count, TRUE,
                                     iid_vec, sid_vec, type_missing, val)}

\* Bed::read_with_options: the output allocated from the lengths of the two
\* indexes, then read_and_fill_with_options
read_with_options(h, bedfile, famfile, bimfile, iid_index, sid_index, is_a1_counted, missing_value) ==
    LET ic == Bed_iid_count(h, famfile)
        sc == Bed_sid_count(ic.h, bimfile)
        iid_count_out == Index_len(iid_index, ic.count)
        sid_count_out == Index_len(sid_index, sc.count)
        val == DefaultArray(iid_count_out.len, sid_count_out.len)
        none == DefaultArray(0, 0)
    IN  IF ic.res.kind # "Ok" THEN {[res |-> ic.res, val |-> none, h |-> ic.h]}
        ELSE IF sc.res.kind # "Ok" THEN {[res |-> sc.res, val |-> none, h |-> sc.h]}
        ELSE IF iid_count_out.res.kind # "Ok"
        THEN {[res |-> iid_count_out.res, val |-> none, h |-> sc.h]}
        ELSE IF sid_count_out.res.kind # "Ok"
        THEN {[res |-> sid_count_out.res, val |-> none, h |-> sc.h]}
        ELSE read_and_fill_with_options(sc.h, bedfile, famfile, bimfile, val,
                                        iid_index, sid_index, is_a1_counted, missing_value)

----------------------------------------------------------------------------
(* The write call.                                                         *)

\* the elements of the arrays: a string, a string made by
\* format!("{prefix}{n}"), a number
Text(s) == [kind |-> "text", text |-> s, n |-> 0]
Numbered(prefix, n) == [kind |-> "numbered", text |-> prefix, n |-> n]
Number(n) == [kind |-> "number", text |-> "", n |-> n]

\* A variant the properties must tell from the code:
\* default names numbered from 0.
ZeroBasedNames(field, i) ==
    IF field = "iid" THEN Numbered("iid", i)
    ELSE IF field = "sid" THEN Numbered("sid", i)
    ELSE IF field \in {"sex", "cm_position", "bp_position"} THEN Number(0)
    ELSE IF field = "allele_1" THEN Text("A1")
    ELSE IF field = "allele_2" THEN Text("A2")
    ELSE Text("0")

\* the lambdas Metadata::fill hands to compute_field, i from 0
fill_lambda(field, i) ==
    IF field = "iid" THEN Numbered("iid", i + 1)
    ELSE IF field = "sid" THEN Numbered("sid", i + 1)
    ELSE IF field \in {"sex", "cm_position", "bp_position"} THEN Number(0)
    ELSE IF field = "allele_1" THEN Text("A1")
    ELSE IF field = "allele_2" THEN Text("A2")
    ELSE Text("0")

\* compute_field's (0..count).map(|i| lambda(i)): element i of an array
\* compute_field made; the elements of other arrays stand for themselves
ElementAt(field, array, i) ==
    IF array.src = "default" THEN fill_lambda(field, i)
    ELSE [kind |-> array.src, text |-> field, n |-> i]

\* Metadata::fill over compute_field: a given field must have the length
\* of its axis, a missing one gets the default values.  [res, metadata]
RECURSIVE FirstBadField(_, _, _, _)
FirstBadField(metadata, fields, i, count) ==
    IF i > Len(fields) THEN 0
    ELSE IF metadata[fields[i]].some /\ metadata[fields[i]].v.len # count THEN i
    ELSE FirstBadField(metadata, fields, i + 1, count)
Metadata_fill(metadata, iid_count, sid_count) ==
    LET badFam == FirstBadField(metadata, FamFields, 1, iid_count)
        badBim == FirstBadField(metadata, BimFields, 1, sid_count)
        filled == [f \in MetadataFields |->
                      IF metadata[f].some THEN metadata[f]
                      ELSE IF f \in Range(FamFields) THEN SomeArr(iid_count, "default")
                      ELSE SomeArr(sid_count, "default")]
    IN  IF badFam # 0
        THEN [res |-> ErrArg("InconsistentCount", metadata[FamFields[badFam]].v.len),
              metadata |-> metadata]
        ELSE IF badBim # 0
        THEN [res |-> ErrArg("InconsistentCount", metadata[BimFields[badBim]].v.len),
              metadata |-> metadata]
        ELSE [res |-> Ok, metadata |-> filled]

\* Metadata::fam_write / bim_write: File::create, then one line per
\* element.  [res, file, created]
sidecar_write(file, count, create_fails, write_fails) ==
    IF create_fails THEN [res |-> Err("IOError"), file |-> file, created |-> FALSE]
    ELSE IF write_fails
    THEN [res |-> Err("IOError"), file |-> Sidecar(0, TRUE), created |-> TRUE]
    ELSE [res |-> Ok, file |-> Sidecar(count, TRUE), created |-> TRUE]

\* The names of the files a call created, from the three flags.
CreatedSet(b, f, m) ==
    (IF b THEN {"bed"} ELSE {}) \cup (IF f THEN {"fam"} ELSE {})
        \cup (IF m THEN {"bim"} ELSE {})

\* Bed::write_with_options: the shape against the counts of the options,
\* the thread count, write_val, then the two sidecars, each removed when
\* its own write fails.  The set of outcomes [res, bed, fam, bim, created]
write_with_options(val, wo, bedfile, famfile, bimfile, fail) ==
    LET same(res) == [res |-> res, bed |-> bedfile, fam |-> famfile, bim |-> bimfile,
                      created |-> {}]
        fw == sidecar_write(famfile, wo.metadata["fid"].v.len,
                               fail = "fam_create", fail = "fam_write")
        bw == sidecar_write(bimfile, wo.metadata["sid"].v.len,
                               fail = "bim_create", fail = "bim_write")
    IN  IF val.nrows # wo.iid_count THEN {same(ErrArg("InconsistentCount", wo.iid_count))}
        ELSE IF val.ncols # wo.sid_count
        THEN {same(ErrArg("InconsistentCount", wo.sid_count))}
        ELSE IF fail = "num_threads" THEN {same(Err("ParseIntError"))}
        ELSE UNION {
            IF v.res.kind # "Ok"
            THEN {[res |-> v.res, bed |-> v.file, fam |-> famfile, bim |-> bimfile,
                   created |-> CreatedSet(v.created, FALSE, FALSE)]}
            ELSE IF fw.res.kind # "Ok"
            THEN {[res |-> fw.res, bed |-> v.file, fam |-> f, bim |-> bimfile,
                   created |-> CreatedSet(TRUE, fw.created, FALSE)] :
                     f \in remove_file(fw.file, fw.created, NoSidecar)}
            ELSE IF bw.res.kind # "Ok"
            THEN {[res |-> bw.res, bed |-> v.file, fam |-> fw.file, bim |-> m,
                   created |-> CreatedSet(TRUE, TRUE, bw.created)] :
                     m \in remove_file(bw.file, bw.created, NoSidecar)}
            ELSE {[res |-> Ok, bed |-> v.file, fam |-> fw.file, bim |-> bw.file,
                   created |-> {"bed", "fam", "bim"}]}
            : v \in write_val(bedfile, val, wo.is_a1_counted, wo.missing_value, fail)}

\* WriteOptionsBuilder::write: the counts are the dimensions of val; build
\* fills the metadata; then Bed::write_with_options
WriteOptionsBuilder_write(val, is_a1_counted, missing_value, metadata, bedfile, famfile, bimfile, fail) ==
    LET m == Metadata_fill(metadata, val.nrows, val.ncols)
        wo == [iid_count |-> val.nrows, sid_count |-> val.ncols,
               is_a1_counted |-> is_a1_counted, missing_value |-> missing_value,
               metadata |-> m.metadata]
    IN  IF m.res.kind # "Ok"
        THEN {[res |-> m.res, bed |-> bedfile, fam |-> famfile, bim |-> bimfile,
               created |-> {}]}
        ELSE write_with_options(val, wo, bedfile, famfile, bimfile, fail)

----------------------------------------------------------------------------
(* The calls as actions.                                                   *)

NoWrite ==
    [called |-> FALSE, val |-> DefaultArray(0, 0), is_a1_counted |-> TRUE,
     missing_value |-> 0, metadata |-> MetadataNew, fail |-> "none", res |-> Ok,
     created |-> {}, bed_before |-> NoBed, fam_before |-> NoSidecar,
     bim_before |-> NoSidecar]
NoBuild ==
    [called |-> FALSE, of |-> "Bed", is_checked_early |-> TRUE, iid_count |-> None,
     sid_count |-> None, metadata |-> MetadataNew, skip_set |-> {}, bed |-> NoBed,
     res |-> Ok, filled |-> MetadataNew]
NoRead ==
    [called |-> FALSE, api |-> "Bed::read_with_options", iid_index |-> IndexAll,
     sid_index |-> IndexAll, is_a1_counted |-> TRUE, missing_value |-> 0,
     nrows |-> 0, ncols |-> 0, res |-> Ok, val |-> DefaultArray(0, 0),
     iid_count |-> None, sid_count |-> None, bed |-> NoBed]
NoAccess ==
    [called |-> FALSE, op |-> "metadata", res |-> Ok, before |-> NoHandle,
     fam |-> NoSidecar, bim |-> NoSidecar]

\* WriteOptions::builder(path)...write(&val), with the place (if any) at
\* which the environment makes a step fail
\* the worker threads of the rayon pool
NumWorkers == 2
Workers == 1..NumWorkers

NoItem == [ok |-> TRUE, bytes |-> <<>>, col |-> 0, err |-> 0]
NoPar ==
    [phase |-> "none", call |-> "none", iid_index |-> <<>>, sid_index |-> <<>>,
     val |-> DefaultArray(0, 0), next |-> 1, cursor |-> 0, lock |-> 0,
     pc |-> [w \in Workers |-> "idle"], item |-> [w \in Workers |-> NoItem],
     errs |-> {}, stopped |-> FALSE, reads |-> 0, decoded |-> <<>>, ready |-> {},
     res |-> Ok]

NoEval ==
    [called |-> FALSE, index |-> IndexAll, count |-> 0,
     len |-> [res |-> Ok, len |-> 0], to_vec |-> [res |-> Ok, vec |-> <<>>]]

WriteOp(val, is_a1_counted, missing_value, metadata, fail) ==
    \E o \in WriteOptionsBuilder_write(val, is_a1_counted, missing_value, metadata,
                                       bed, fam, bim, fail) :
        /\ bed' = o.bed
        /\ fam' = o.fam
        /\ bim' = o.bim
        /\ wr' = [called |-> TRUE, val |-> val, is_a1_counted |-> is_a1_counted,
                  missing_value |-> missing_value, metadata |-> metadata,
                  fail |-> fail, res |-> o.res, created |-> o.created,
                  bed_before |-> bed, fam_before |-> fam, bim_before |-> bim]
        /\ UNCHANGED <<handle, bd, rd, ac, ix, par>>

\* Bed::builder(path)...build(); Bed::new(path) is the build with no option
BuildOp(is_checked_early, iid_count, sid_count, metadata, skip_set) ==
    LET r == BedBuilder_build(is_checked_early, iid_count, sid_count, metadata,
                              skip_set, bed)
    IN  /\ handle' = IF r.res.kind = "Ok" THEN r.h ELSE handle
        /\ bd' = [called |-> TRUE, of |-> "Bed", is_checked_early |-> is_checked_early,
                  iid_count |-> iid_count, sid_count |-> sid_count,
                  metadata |-> metadata, skip_set |-> skip_set, bed |-> bed,
                  res |-> r.res, filled |-> MetadataNew]
        /\ UNCHANGED <<bed, fam, bim, wr, rd, ac, ix, par>>

\* Metadata::builder()...build()
MetadataBuildOp(metadata) ==
    /\ bd' = [NoBuild EXCEPT !.called = TRUE, !.of = "Metadata", !.metadata = metadata,
                             !.res = MetadataBuilder_build(metadata)]
    /\ UNCHANGED <<bed, fam, bim, handle, wr, rd, ac, ix, par>>

\* index.len(count) and index.to_vec(count)
EvalOp(index, count) ==
    /\ ix' = [called |-> TRUE, index |-> index, count |-> count,
              len |-> Index_len(index, count), to_vec |-> Index_to_vec(index, count)]
    /\ UNCHANGED <<bed, fam, bim, handle, wr, bd, rd, ac, par>>

\* metadata.fill(iid_count, sid_count)
FillOp(metadata, iid_count, sid_count) ==
    LET r == Metadata_fill(metadata, iid_count, sid_count)
    IN  /\ bd' = [NoBuild EXCEPT !.called = TRUE, !.of = "Metadata::fill",
                                 !.metadata = metadata, !.iid_count = Some(iid_count),
                                 !.sid_count = Some(sid_count), !.res = r.res,
                                 !.filled = IF r.res.kind = "Ok" THEN r.metadata
                                            ELSE MetadataNew]
        /\ UNCHANGED <<bed, fam, bim, handle, wr, rd, ac, ix, par>>

\* The outcomes of one read call through the given entry point; nrows and
\* ncols are the dimensions of the caller's matrix for the read-into calls.
ReadOutcomes(api, iid_index, sid_index, is_a1_counted, missing_value, nrows, ncols) ==
    IF api = "Bed::read_with_options"
    THEN read_with_options(handle, bed, fam, bim, iid_index, sid_index,
                           is_a1_counted, missing_value)
    ELSE IF api = "Bed::read_and_fill"
    THEN read_and_fill(handle, bed, fam, bim, DefaultArray(nrows, ncols), missing_value)
    ELSE read_and_fill_with_options(handle, bed, fam, bim, DefaultArray(nrows, ncols),
                                    iid_index, sid_index, is_a1_counted, missing_value)

\* A read through one of the four entry points.  Bed::read_and_fill takes
\* no options: its indexes are All and its flag is the default.
ReadOp(api, iid_index, sid_index, is_a1_counted, missing_value, nrows, ncols) ==
    /\ handle.built
    /\ api = "Bed::read_and_fill" =>
           iid_index = IndexAll /\ sid_index = IndexAll /\ is_a1_counted
    /\ \E o \in ReadOutcomes(api, iid_index, sid_index, is_a1_counted, missing_value,
                             nrows, ncols) :
        /\ handle' = o.h
        /\ rd' = [called |-> TRUE, api |-> api, iid_index |-> iid_index,
                  sid_index |-> sid_index, is_a1_counted |-> is_a1_counted,
                  missing_value |-> missing_value,
                  nrows |-> IF api = "Bed::read_with_options" THEN o.val.nrows ELSE nrows,
                  ncols |-> IF api = "Bed::read_with_options" THEN o.val.ncols ELSE ncols,
                  res |-> o.res, val |-> o.val,
                  iid_count |-> o.h.iid_count, sid_count |-> o.h.sid_count,
                  bed |-> bed]
    /\ UNCHANGED <<bed, fam, bim, wr, bd, ac, ix, par>>

AccessOps == MetadataFields \cup {"metadata", "iid_count", "sid_count"}

\* A metadata access: a field accessor, metadata(), iid_count() or sid_count()
AccessOp(op) ==
    /\ handle.built
    /\ LET r == IF op = "metadata" THEN Bed_metadata(handle, fam, bim)
                ELSE IF op = "iid_count"
                THEN [res |-> Bed_iid_count(handle, fam).res,
                      h |-> Bed_iid_count(handle, fam).h]
                ELSE IF op = "sid_count"
                THEN [res |-> Bed_sid_count(handle, bim).res,
                      h |-> Bed_sid_count(handle, bim).h]
                ELSE Bed_field(handle, op, fam, bim)
       IN  /\ handle' = r.h
           /\ ac' = [called |-> TRUE, op |-> op, res |-> r.res, before |-> handle,
                     fam |-> fam, bim |-> bim]
    /\ UNCHANGED <<bed, fam, bim, wr, bd, rd, ix, par>>

----------------------------------------------------------------------------
(* Inputs.                                                                 *)

\* The missing sentinels a caller picks: the defaults of the element types
\* (NaN for f64/f32, -127 for i8) and sentinels that are genotype values.
MissingValues == {NaN, I8Missing, 0, 1, 2}

Shapes == (0..MaxIid) \X (0..MaxSid)

\* The values a matrix to write may hold, in the order a pattern cycles them.
CellSeq(mv) == <<0, 1, 2, mv>>

\* Every matrix of at most MaxFullCells cells over the four values.
FullMatrices(mv) ==
    UNION {{[nrows |-> sh[1], ncols |-> sh[2], a |-> a] :
               a \in [1..sh[1] -> [1..sh[2] -> Range(CellSeq(mv))]]} :
           sh \in {x \in Shapes : x[1] * x[2] <= MaxFullCells}}

\* A matrix of any shape whose cells cycle through the four values.
PatternMatrix(r, c, b, s, mv) ==
    [nrows |-> r, ncols |-> c,
     a |-> [i \in 1..r |-> [j \in 1..c |-> CellSeq(mv)[((i + b * j + s) % 4) + 1]]]]

GoodMatrices(mv) ==
    FullMatrices(mv)
        \cup {PatternMatrix(sh[1], sh[2], b, s, mv) : sh \in Shapes, b \in 0..1, s \in 0..3}

\* Nothing on disk, nothing called.
InitEmpty ==
    /\ bed = NoBed
    /\ fam = NoSidecar
    /\ bim = NoSidecar
    /\ handle = NoHandle
    /\ wr = NoWrite
    /\ bd = NoBuild
    /\ rd = NoRead
    /\ ac = NoAccess
    /\ ix = NoEval
    /\ par = NoPar

----------------------------------------------------------------------------
(* SpecCodec: a matrix is written, the written dataset is opened with      *)
(* Bed::new and read back whole.                                           *)

WriteMatrix ==
    /\ ~wr.called
    /\ \E mv \in MissingValues, a1 \in BOOLEAN :
         \E val \in GoodMatrices(mv) : WriteOp(val, a1, mv, MetadataNew, "none")

OpenWritten ==
    /\ ~handle.built
    /\ bed.exists
    /\ BuildOp(TRUE, None, None, MetadataNew, {})

ReadBack ==
    \E a1 \in BOOLEAN, mv \in MissingValues :
        ReadOp("Bed::read_with_options", IndexAll, IndexAll, a1, mv, 0, 0)

NextCodec == WriteMatrix \/ OpenWritten \/ ReadBack

SpecCodec == InitEmpty /\ [][NextCodec]_vars

\* C1: a matrix with cells in {0, 1, 2, missing}, of any shape, is written
\* without error, and the whole-file read of what was written, with the same
\* count_a1 flag and the same sentinel, returns a matrix equal to it cell by
\* cell (missing equal to missing).
RoundTrip ==
    /\ wr.called => wr.res.kind = "Ok"
    /\ (rd.called /\ rd.is_a1_counted = wr.is_a1_counted
            /\ rd.missing_value = wr.missing_value)
       => /\ rd.res.kind = "Ok"
          /\ rd.val.nrows = wr.val.nrows
          /\ rd.val.ncols = wr.val.ncols
          /\ \A i \in 1..wr.val.nrows : \A j \in 1..wr.val.ncols :
                 rd.val.a[i][j] = wr.val.a[i][j]

\* a matrix whose row count is above 4 and no multiple of 4, holding all of
\* 0, 1, 2 and NaN, has been written and read back
RoundTripWitness ==
    /\ rd.called
    /\ rd.res.kind = "Ok"
    /\ rd.is_a1_counted = wr.is_a1_counted
    /\ rd.missing_value = NaN
    /\ wr.missing_value = NaN
    /\ wr.val.nrows > 4
    /\ wr.val.nrows % 4 # 0
    /\ wr.val.ncols > 1
    /\ {wr.val.a[i][1] : i \in 1..wr.val.nrows} = {0, 1, 2, NaN}
    /\ rd.val = wr.val

\* The 2-bit code of cell `cell` (0-based) of block `block` (0-based) of a
\* file whose blocks have blocklen bytes: bits 2*(cell mod 4) and
\* 2*(cell mod 4)+1 of byte cell div 4 of the block.
Bit(byte, k) == (byte \div (2 ^ k)) % 2
BlockCode(bytes, blocklen, block, cell) ==
    LET byte == bytes[3 + block * blocklen + (cell \div 4) + 1]
    IN  Bit(byte, 2 * (cell % 4)) + 2 * Bit(byte, 2 * (cell % 4) + 1)
CeilDiv4(n) == (n + 3) \div 4

\* The code on disk of cell (i, j), 1-based, of an R x C dataset in a file
\* of the given orientation.
DiskCode(bytes, R, C, i, j) ==
    IF bytes[3] = 1 THEN BlockCode(bytes, CeilDiv4(R), j - 1, i - 1)
    ELSE BlockCode(bytes, CeilDiv4(C), i - 1, j - 1)

\* the write encodes every cell equal to its sentinel as 01
WritesSentinelAs01 ==
    (wr.called /\ wr.res.kind = "Ok")
    => \A i \in 1..wr.val.nrows : \A j \in 1..wr.val.ncols :
           wr.val.a[i][j] = wr.missing_value
           => DiskCode(bed.bytes, wr.val.nrows, wr.val.ncols, i, j) = 1

\* the read decodes every cell whose code on disk is 01 to its sentinel
Reads01AsSentinel ==
    (rd.called /\ rd.res.kind = "Ok")
    => \A i \in 1..rd.val.nrows : \A j \in 1..rd.val.ncols :
           DiskCode(rd.bed.bytes, rd.val.nrows, rd.val.ncols, i, j) = 1
           => rd.val.a[i][j] = rd.missing_value

\* C8 as stated: for every sentinel V, a write encodes every cell equal to V
\* as the code 01 and a read decodes every code 01 to V.
MissingSentinelAnyValue == WritesSentinelAs01 /\ Reads01AsSentinel

\* C8: for every sentinel V other than 0, 1 and 2 (NaN included), a write
\* encodes every cell equal to V as the code 01; for every sentinel V, a read
\* decodes every cell whose code on disk is 01 to V.
MissingSentinel ==
    /\ wr.missing_value \notin {0, 1, 2} => WritesSentinelAs01
    /\ Reads01AsSentinel

\* a NaN cell was written as 01 and a 01 on disk was read as the sentinel -127
MissingSentinelWitness ==
    /\ wr.called /\ wr.res.kind = "Ok" /\ wr.missing_value = NaN
    /\ \E i \in 1..wr.val.nrows : \E j \in 1..wr.val.ncols :
           /\ wr.val.a[i][j] = NaN
           /\ DiskCode(bed.bytes, wr.val.nrows, wr.val.ncols, i, j) = 1
    /\ rd.called /\ rd.res.kind = "Ok" /\ rd.missing_value = I8Missing
    /\ \E i \in 1..rd.val.nrows : \E j \in 1..rd.val.ncols :
           /\ DiskCode(rd.bed.bytes, rd.val.nrows, rd.val.ncols, i, j) = 1
           /\ rd.val.a[i][j] = I8Missing

----------------------------------------------------------------------------
(* SpecDecode: the disk holds an arbitrary .bed file next to well-formed   *)
(* sidecars of some shape; it is opened, with or without the early header  *)
(* check, and read whole.                                                  *)

\* Bytes with every pattern of two-bit codes among them.
SampleBytes == <<0, 27, 228, 85, 170, 255>>
DataBytes(len, s) ==
    [k \in 1..len |-> SampleBytes[((k * k + s) % Len(SampleBytes)) + 1]]

\* Complete headers of both orientations, short ones, wrong magic bytes,
\* and an orientation byte that is neither 0 nor 1.
Headers ==
    {<<>>, <<BED_FILE_MAGIC1>>, <<BED_FILE_MAGIC1, BED_FILE_MAGIC2>>,
     <<BED_FILE_MAGIC1, BED_FILE_MAGIC2, 1>>, <<BED_FILE_MAGIC1, BED_FILE_MAGIC2, 0>>,
     <<BED_FILE_MAGIC1, BED_FILE_MAGIC2, 2>>, <<BED_FILE_MAGIC1, BED_FILE_MAGIC2 + 1, 1>>,
     <<0, BED_FILE_MAGIC2, 1>>, <<BED_FILE_MAGIC2, BED_FILE_MAGIC1, 0>>}

\* The most data bytes a dataset of the largest shape has, and one more.
MaxDataLen ==
    LET a == CeilDiv4(MaxIid) * MaxSid
        b == CeilDiv4(MaxSid) * MaxIid
    IN  (IF a > b THEN a ELSE b) + 1

RawFiles ==
    {BedOf(h \o DataBytes(len, s)) : h \in Headers, len \in 0..MaxDataLen, s \in 0..2}

\* Every value of the one data byte of a one-block file.
OneByteFiles(mode) ==
    {BedOf(<<BED_FILE_MAGIC1, BED_FILE_MAGIC2, mode, b>>) : b \in 0..255}

InitDecode ==
    /\ \/ /\ bed \in RawFiles
          /\ \E sh \in Shapes : fam = Sidecar(sh[1], TRUE) /\ bim = Sidecar(sh[2], TRUE)
       \/ /\ bed \in OneByteFiles(1)
          /\ fam = Sidecar(4, TRUE) /\ bim = Sidecar(1, TRUE)
       \/ /\ bed \in OneByteFiles(0)
          /\ fam = Sidecar(1, TRUE) /\ bim = Sidecar(4, TRUE)
       \/ /\ bed = NoBed
          /\ fam = Sidecar(1, TRUE) /\ bim = Sidecar(1, TRUE)
    /\ handle = NoHandle
    /\ wr = NoWrite
    /\ bd = NoBuild
    /\ rd = NoRead
    /\ ac = NoAccess
    /\ ix = NoEval
    /\ par = NoPar

OpenRaw ==
    /\ ~bd.called
    /\ \E is_checked_early \in BOOLEAN :
         BuildOp(is_checked_early, None, None, MetadataNew, {})

ReadRaw ==
    \E a1 \in BOOLEAN, mv \in {NaN, I8Missing} :
        ReadOp("Bed::read_with_options", IndexAll, IndexAll, a1, mv, 0, 0)

NextDecode == OpenRaw \/ ReadRaw

SpecDecode == InitDecode /\ [][NextDecode]_vars

\* The value the format gives a 2-bit code under each counting convention.
CodeValue(code, count_a1, missing) ==
    CASE code = 0 -> IF count_a1 THEN 2 ELSE 0
      [] code = 1 -> missing
      [] code = 2 -> 1
      [] code = 3 -> IF count_a1 THEN 0 ELSE 2

\* C2: every cell i of every packed block that a read returns is the value
\* of the 2-bit code at bits 2*(i mod 4), 2*(i mod 4)+1 of byte i div 4 of
\* the block: with count_a1 00 -> 2, 01 -> missing, 10 -> 1, 11 -> 0, without
\* it 00 -> 0, 01 -> missing, 10 -> 1, 11 -> 2.
DecodeTable ==
    (rd.called /\ rd.res.kind = "Ok")
    => /\ rd.val.nrows = rd.iid_count.v
       /\ rd.val.ncols = rd.sid_count.v
       /\ \A i \in 1..rd.val.nrows : \A j \in 1..rd.val.ncols :
              rd.val.a[i][j] =
                  CodeValue(DiskCode(rd.bed.bytes, rd.iid_count.v, rd.sid_count.v, i, j),
                            rd.is_a1_counted, rd.missing_value)

\* a two-byte block was decoded, with a cell of each code in it, under both
\* conventions' worth of codes: the fifth row comes from the second byte
DecodeTableWitness ==
    /\ rd.called /\ rd.res.kind = "Ok"
    /\ rd.bed.bytes[3] = 1
    /\ rd.val.nrows > 4
    /\ rd.val.ncols > 1
    /\ ~rd.is_a1_counted
    /\ {DiskCode(rd.bed.bytes, rd.val.nrows, rd.val.ncols, i, 1) : i \in 1..rd.val.nrows}
           = 0..3
    /\ rd.val.a[5][1] =
           CodeValue(BlockCode(rd.bed.bytes, 2, 0, 4), FALSE, rd.missing_value)

\* C5 as stated: a read of a file whose first two bytes are missing or are
\* not 0x6C 0x1B fails with IllFormed; with the magic right and a third byte
\* that is neither 0 nor 1 it fails with BadMode; with a valid header and a
\* size other than 3 + ceil(R/4)*C (R and C swapped for orientation 0) it
\* fails with IllFormed; and in none of these cases is a matrix returned.
HeaderAndLengthValidation ==
    (rd.called /\ rd.bed.exists)
    => LET b == rd.bed.bytes
           R == rd.iid_count.v
           C == rd.sid_count.v
           magic == Len(b) >= 2 /\ b[1] = 108 /\ b[2] = 27
           size == IF b[3] = 1 THEN 3 + CeilDiv4(R) * C ELSE 3 + CeilDiv4(C) * R
       IN  /\ ~magic => rd.res.kind = "IllFormed"
           /\ (magic /\ Len(b) >= 3 /\ b[3] \notin {0, 1}) => rd.res.kind = "BadMode"
           /\ (magic /\ Len(b) >= 3 /\ b[3] \in {0, 1} /\ Len(b) # size)
              => rd.res.kind = "IllFormed"

\* the read of a file that holds only the first magic byte ended in an I/O
\* error
ShortHeaderIsIOError ==
    /\ rd.called
    /\ rd.bed = BedOf(<<BED_FILE_MAGIC1>>)
    /\ rd.res.kind = "IOError"

----------------------------------------------------------------------------
(* SpecIndex: the disk holds a well-formed dataset of either orientation;  *)
(* it is opened with Bed::new and read once, through one of the four entry *)
(* points, with signed position lists or into a matrix of some shape.      *)

\* A well-formed file of the given orientation for an R x C dataset.
ValidFile(mode, R, C, s) ==
    BedOf(<<BED_FILE_MAGIC1, BED_FILE_MAGIC2, mode>>
          \o DataBytes(IF mode = 1 THEN CeilDiv4(R) * C ELSE CeilDiv4(C) * R, s))

IndexShapes == {<<MaxIid, MaxSid>>, <<MaxSid, MaxIid>>}

\* Positions at and around both ends of an axis, and one inside it.
Positions(count) == {-count - 1, -count, -1, 0, 1, count - 1, count}

SeqsUpTo(S, n) == UNION {[1..k -> S] : k \in 0..n}

Indexes(count, n) ==
    {IndexAll} \cup {IndexOne(k) : k \in Positions(count)}
        \cup {IndexVec(v) : v \in SeqsUpTo(Positions(count), n)}

\* The number of positions an index lists explicitly.
Listed(index) == IF index.kind = "One" THEN 1 ELSE Len(index.vec)

InitIndex ==
    /\ \E sh \in IndexShapes, mode \in {0, 1} :
         /\ bed = ValidFile(mode, sh[1], sh[2], 1)
         /\ fam = Sidecar(sh[1], TRUE)
         /\ bim = Sidecar(sh[2], TRUE)
    /\ handle = NoHandle
    /\ wr = NoWrite
    /\ bd = NoBuild
    /\ rd = NoRead
    /\ ac = NoAccess
    /\ ix = NoEval
    /\ par = NoPar

OpenDataset ==
    /\ ~handle.built
    /\ BuildOp(TRUE, None, None, MetadataNew, {})

ReadIndexed ==
    /\ ~rd.called
    /\ handle.built
    /\ \E a1 \in BOOLEAN :
       \E iid_index \in Indexes(fam.lines, MaxIndexLen) :
       \E sid_index \in Indexes(bim.lines, MaxIndexLen + 1 - Listed(iid_index)) :
           ReadOp("Bed::read_with_options", iid_index, sid_index, a1, NaN, 0, 0)

ReadInto ==
    /\ ~rd.called
    /\ handle.built
    /\ \E api \in ReadApis \ {"Bed::read_with_options"} :
       \E a1 \in BOOLEAN :
       \E iid_index \in {IndexAll, IndexOne(-1), IndexVec(<<0, 0>>)} :
       \E sid_index \in {IndexAll, IndexOne(0)} :
       \E nrows \in 0..(fam.lines + 1), ncols \in 0..(bim.lines + 1) :
           ReadOp(api, iid_index, sid_index, a1, I8Missing, nrows, ncols)

NextIndex == OpenDataset \/ ReadIndexed \/ ReadInto

SpecIndex == InitIndex /\ [][NextIndex]_vars

\* The file of the other orientation that holds the same code for every
\* (row, column) cell: one block per column for orientation 1, one block per
\* row for orientation 0, four cells to a byte from the low bits up, the
\* unused bits of a block's last byte zero.
RepackedByte(file, R, C, mode, n) ==
    LET blocklen == IF mode = 1 THEN CeilDiv4(R) ELSE CeilDiv4(C)
        cells == IF mode = 1 THEN R ELSE C
        block == n \div blocklen
        k == n % blocklen
        code(m) ==
            IF 4 * k + m >= cells THEN 0
            ELSE IF mode = 1 THEN DiskCode(file.bytes, R, C, 4 * k + m + 1, block + 1)
            ELSE DiskCode(file.bytes, R, C, block + 1, 4 * k + m + 1)
    IN  code(0) + 4 * code(1) + 16 * code(2) + 64 * code(3)
Repack(file, R, C) ==
    LET mode == 1 - file.bytes[3]
        len == IF mode = 1 THEN CeilDiv4(R) * C ELSE CeilDiv4(C) * R
    IN  BedOf(<<BED_FILE_MAGIC1, BED_FILE_MAGIC2, mode>>
              \o [n \in 1..len |-> RepackedByte(file, R, C, mode, n - 1)])

\* C3: when a read with a pair of row and column selections returns a
\* matrix, the same read of the file of the other orientation that encodes
\* the same logical matrix returns the identical matrix.
OrientationTransparent ==
    (rd.called /\ rd.api = "Bed::read_with_options" /\ rd.res.kind = "Ok")
    => \A o \in read_no_alloc(Repack(rd.bed, rd.iid_count.v, rd.sid_count.v),
                              rd.iid_count.v, rd.sid_count.v, rd.is_a1_counted,
                              Index_to_vec(rd.iid_index, rd.iid_count.v).vec,
                              Index_to_vec(rd.sid_index, rd.sid_count.v).vec,
                              rd.missing_value,
                              DefaultArray(rd.val.nrows, rd.val.ncols)) :
           o.res.kind = "Ok" /\ o.val = rd.val

\* a file of orientation 0 was read with two row positions, one of them
\* negative, and a column position, giving two different values
OrientationTransparentWitness ==
    /\ rd.called /\ rd.api = "Bed::read_with_options" /\ rd.res.kind = "Ok"
    /\ rd.bed.bytes[3] = 0
    /\ rd.iid_index.kind = "Vec"
    /\ Len(rd.iid_index.vec) = 2
    /\ rd.iid_index.vec[1] < 0
    /\ rd.sid_index.kind = "One"
    /\ rd.val.a[1][1] # rd.val.a[2][1]
    /\ Repack(rd.bed, rd.iid_count.v, rd.sid_count.v).bytes[3] = 1

\* The signed positions an index lists, and those outside -count <= k < count.
PositionList(index, count) ==
    IF index.kind = "All" THEN [i \in 1..count |-> i - 1]
    ELSE IF index.kind = "One" THEN <<index.one>>
    ELSE index.vec
OutOfRange(list, count) == {k \in Range(list) : ~(-count <= k /\ k < count)}

\* C4 as stated: with every position in range the read returns the
\* len(iid_index) x len(sid_index) matrix whose cell (i, j) is the file's
\* cell (r, c), r = iid_index[i] if >= 0 else R + iid_index[i], c likewise;
\* a row position k out of range makes it fail with IidIndexTooBig(k), a
\* column position k out of range with SidIndexTooBig(k) (either of the two
\* when both axes have one).
IndexedRead ==
    (rd.called /\ rd.api = "Bed::read_with_options")
    => LET R == rd.iid_count.v
           C == rd.sid_count.v
           rows == PositionList(rd.iid_index, R)
           cols == PositionList(rd.sid_index, C)
           badRows == OutOfRange(rows, R)
           badCols == OutOfRange(cols, C)
           r(i) == IF rows[i] >= 0 THEN rows[i] ELSE R + rows[i]
           c(j) == IF cols[j] >= 0 THEN cols[j] ELSE C + cols[j]
           iidErr == rd.res.kind = "IidIndexTooBig" /\ rd.res.arg \in badRows
           sidErr == rd.res.kind = "SidIndexTooBig" /\ rd.res.arg \in badCols
       IN  IF badRows = {} /\ badCols = {}
           THEN /\ rd.res.kind = "Ok"
                /\ rd.val.nrows = Len(rows)
                /\ rd.val.ncols = Len(cols)
                /\ \A i \in 1..Len(rows) : \A j \in 1..Len(cols) :
                       rd.val.a[i][j] =
                           CodeValue(DiskCode(rd.bed.bytes, R, C, r(i) + 1, c(j) + 1),
                                     rd.is_a1_counted, rd.missing_value)
           ELSE IF badCols = {} THEN iidErr
           ELSE IF badRows = {} THEN sidErr
           ELSE iidErr \/ sidErr

\* a read of a file of orientation 0 with a row position out of range and
\* every column position in range ended in SidIndexTooBig
RowErrorNamesColumns ==
    /\ rd.called /\ rd.api = "Bed::read_with_options"
    /\ rd.bed.bytes[3] = 0
    /\ OutOfRange(PositionList(rd.iid_index, rd.iid_count.v), rd.iid_count.v) # {}
    /\ OutOfRange(PositionList(rd.sid_index, rd.sid_count.v), rd.sid_count.v) = {}
    /\ rd.res.kind = "SidIndexTooBig"

\* C9 as stated: every read-into call whose output matrix has a shape other
\* than (len(iid_index, R), len(sid_index, C)) fails with InvalidShape.
ReadIntoChecksShape ==
    (rd.called /\ rd.api \in ReadApis \ {"Bed::read_with_options"}
        /\ <<rd.nrows, rd.ncols>> #
               <<Len(PositionList(rd.iid_index, rd.iid_count.v)),
                 Len(PositionList(rd.sid_index, rd.sid_count.v))>>)
    => rd.res.kind = "InvalidShape"

\* Bed::read_and_fill returned Ok for a matrix with more rows and more
\* columns than the dataset, leaving the cells beyond it as they were
ReadAndFillWrongShapeOk ==
    /\ rd.called /\ rd.api = "Bed::read_and_fill"
    /\ rd.nrows = rd.iid_count.v + 1
    /\ rd.ncols = rd.sid_count.v + 1
    /\ rd.res.kind = "Ok"
    /\ rd.val.a[rd.nrows][rd.ncols] = 0

----------------------------------------------------------------------------
(* SpecWrite: matrices, some with a cell that is no genotype value, are    *)
(* written one after another to the same paths, and the environment may    *)
(* make any step of a write fail.                                          *)

\* Values that are neither 0, 1, 2 nor the sentinel.
BadCells(mv) == {3} \cup (IF mv = NaN THEN {} ELSE {NaN})

WriteShapes == {<<1, 1>>, <<MaxLen, MaxSid>>}

\* One matrix of genotype values per shape, and each of them with its first
\* or its last cell replaced by a bad value.
WriteMatrices(mv) ==
    {PatternMatrix(sh[1], sh[2], 0, 0, mv) : sh \in WriteShapes}
        \cup UNION {{[PatternMatrix(sh[1], sh[2], 0, 0, mv) EXCEPT !.a[c[1]][c[2]] = v] :
                         c \in {<<1, 1>>, sh}, v \in BadCells(mv)} :
                     sh \in WriteShapes}

\* The metadata a caller gives the write: none, or a fid array.
GivenFid(len) == [MetadataNew EXCEPT !["fid"] = SomeArr(len, "given")]

WriteAny ==
    \E mv \in {NaN, I8Missing}, fail \in IoFailPoints :
    \E val \in WriteMatrices(mv), metadata \in {MetadataNew, GivenFid(MaxLen)} :
        WriteOp(val, TRUE, mv, metadata, fail)

NextWrite == WriteAny

SpecWrite == InitEmpty /\ [][NextWrite]_vars

\* C6 as stated: when a write fails after a file was created, no file
\* created by that write exists when the call returns; in particular the
\* .bed file is removed when a sidecar step fails.
WriteAtomicOrRemoved ==
    (wr.called /\ wr.res.kind # "Ok")
    => /\ "bed" \in wr.created => ~bed.exists
       /\ "fam" \in wr.created => ~fam.exists
       /\ "bim" \in wr.created => ~bim.exists

\* a write failed while writing the .bim sidecar, and the .bed and .fam
\* files it had created are still there
BedLeftAfterSidecarFailure ==
    /\ wr.called
    /\ wr.fail = "bim_write"
    /\ wr.res.kind = "IOError"
    /\ wr.created = {"bed", "fam", "bim"}
    /\ bed.exists
    /\ fam.exists
    /\ ~bim.exists

\* a cell that is neither 0, 1, 2 nor the sentinel
HasBadCell(val, mv) ==
    \E i \in 1..val.nrows : \E j \in 1..val.ncols :
        val.a[i][j] \notin {0, 1, 2, mv}

\* the given metadata fits the matrix, and no step before the encoding fails
ReachesEncoding ==
    /\ wr.fail \notin {"num_threads", "bed_create", "bed_write"}
    /\ \A f \in Range(FamFields) :
           wr.metadata[f].some => wr.metadata[f].v.len = wr.val.nrows
    /\ \A f \in Range(BimFields) :
           wr.metadata[f].some => wr.metadata[f].v.len = wr.val.ncols

\* C7 as stated: a write whose matrix has a bad cell fails with BadValue, and
\* afterwards none of the .bed, .fam and .bim files exists, from whatever
\* state of those paths the write was started.
BadValueLeavesNoFile ==
    (wr.called /\ HasBadCell(wr.val, wr.missing_value) /\ ReachesEncoding)
    => /\ wr.res.kind = "BadValue"
       /\ ~bed.exists
       /\ ~fam.exists
       /\ ~bim.exists

\* C7: a write whose matrix has a bad cell, when no step before the encoding
\* fails, fails with BadValue; afterwards the .bed file does not exist and
\* the .fam and .bim paths are as they were before the write, so none of the
\* three exists when neither sidecar existed before.
BadValueRejected ==
    (wr.called /\ HasBadCell(wr.val, wr.missing_value) /\ ReachesEncoding)
    => /\ wr.res.kind = "BadValue"
       /\ ~bed.exists
       /\ fam = wr.fam_before
       /\ bim = wr.bim_before

\* the integer 3 with sentinel -127 was rejected where an earlier write had
\* left its three files: the .bed is gone, the sidecars are still there
BadValueRejectedWitness ==
    /\ wr.called
    /\ wr.missing_value = I8Missing
    /\ \E i \in 1..wr.val.nrows : \E j \in 1..wr.val.ncols : wr.val.a[i][j] = 3
    /\ wr.res.kind = "BadValue"
    /\ wr.bed_before.exists
    /\ ~bed.exists
    /\ fam.exists
    /\ bim.exists

----------------------------------------------------------------------------
(* SpecMeta: handles and metadata bundles built with declared counts and   *)
(* given fields, over sidecars of every length, then metadata accesses.    *)

\* what a builder is given for one field: nothing, or an array of a length
GivenArrays == {NoArr} \cup {SomeArr(n, "given") : n \in 0..MaxLen}
Given(f1, a1, f2, a2) == [MetadataNew EXCEPT ![f1] = a1, ![f2] = a2]
FamGiven == {Given("fid", a, "sex", b) : a \in GivenArrays, b \in GivenArrays}
BimGiven == {Given("sid", a, "allele_2", b) : a \in GivenArrays, b \in GivenArrays}
DeclaredCounts == {None} \cup {Some(n) : n \in 0..MaxLen}

\* a sidecar that is absent, has 0..MaxLen six-field lines, or has a line
\* without six fields
SidecarFiles ==
    {NoSidecar, Sidecar(1, FALSE)} \cup {Sidecar(n, TRUE) : n \in 0..MaxLen}

InitMeta ==
    /\ bed \in {ValidFile(1, 1, 1, 0), NoBed}
    /\ \/ fam \in SidecarFiles /\ bim = Sidecar(1, TRUE)
       \/ fam = Sidecar(1, TRUE) /\ bim \in SidecarFiles
    /\ handle = NoHandle
    /\ wr = NoWrite
    /\ bd = NoBuild
    /\ rd = NoRead
    /\ ac = NoAccess
    /\ ix = NoEval
    /\ par = NoPar

\* Bed::builder(path) with a declared iid_count and given .fam fields
OpenWithFam ==
    /\ ~bd.called
    /\ \E is_checked_early \in BOOLEAN, iid_count \in DeclaredCounts,
          metadata \in FamGiven :
           BuildOp(is_checked_early, iid_count, None, metadata, {})

\* Bed::builder(path) with a declared sid_count and given .bim fields
OpenWithBim ==
    /\ ~bd.called
    /\ \E is_checked_early \in BOOLEAN, sid_count \in DeclaredCounts,
          metadata \in BimGiven :
           BuildOp(is_checked_early, None, sid_count, metadata, {})

\* Metadata::builder() with given fields
BuildBundle ==
    /\ ~bd.called
    /\ \E metadata \in FamGiven \cup BimGiven : MetadataBuildOp(metadata)

MetaOps == {"fid", "iid", "sex", "sid", "allele_2", "metadata", "iid_count", "sid_count"}
Access == \E op \in MetaOps : AccessOp(op)

NextMeta == OpenWithFam \/ OpenWithBim \/ BuildBundle \/ Access

SpecMeta == InitMeta /\ [][NextMeta]_vars

\* the lengths of the present fields of one sidecar
PresentLens(metadata, fields) ==
    {metadata[f].v.len : f \in {g \in Range(fields) : metadata[g].some}}

\* two present fields of different lengths, or a declared count that is not
\* the length of a present field
Inconsistent(metadata, fields, declared) ==
    \/ Cardinality(PresentLens(metadata, fields)) > 1
    \/ declared.some /\ \E l \in PresentLens(metadata, fields) : l # declared.v

BuildInconsistent ==
    \/ Inconsistent(bd.metadata, FamFields, bd.iid_count)
    \/ Inconsistent(bd.metadata, BimFields, bd.sid_count)

\* the .bed file of the build has the three header bytes of a .bed file
HeaderOk(file) ==
    /\ file.exists
    /\ Len(file.bytes) >= 3
    /\ file.bytes[1] = BED_FILE_MAGIC1
    /\ file.bytes[2] = BED_FILE_MAGIC2
    /\ file.bytes[3] \in {0, 1}

\* the access parses the .fam (.bim) file, and the file parses
ParsesFam ==
    /\ ac.called
    /\ \/ ac.op = "metadata"
       \/ /\ ac.op \in Range(FamFields)
          /\ ac.op \notin ac.before.skip_set
          /\ ~ac.before.metadata[ac.op].some
    /\ ac.fam.exists
    /\ ac.fam.six \/ ac.fam.lines = 0
ParsesBim ==
    /\ ac.called
    /\ \/ ac.op = "metadata" /\ Bed_fam(ac.before, ac.fam).res.kind = "Ok"
       \/ /\ ac.op \in Range(BimFields)
          /\ ac.op \notin ac.before.skip_set
          /\ ~ac.before.metadata[ac.op].some
    /\ ac.bim.exists
    /\ ac.bim.six \/ ac.bim.lines = 0

\* when the count known to the handle differs from the line count of the
\* sidecar an access parses, the access fails with InconsistentCount
AccessChecksCount ==
    /\ (ParsesFam /\ ac.before.iid_count.some
                  /\ ac.before.iid_count.v # ac.fam.lines)
       => ac.res.kind = "InconsistentCount"
    /\ (ParsesBim /\ ac.before.sid_count.some
                  /\ ac.before.sid_count.v # ac.bim.lines)
       => ac.res.kind = "InconsistentCount"

\* C10 as stated: every build of a handle or a metadata bundle with
\* inconsistent lengths fails with InconsistentCount, and so does the access
\* that parses a sidecar whose line count is not the declared count.
MetadataConsistencyAnyFile ==
    /\ (bd.called /\ BuildInconsistent) => bd.res.kind = "InconsistentCount"
    /\ AccessChecksCount

\* C10: a build of a metadata bundle, or of a handle whose early header
\* check passes or is skipped, with two present fields of one sidecar of
\* different lengths or a declared count that is not a present field's
\* length fails with InconsistentCount; and the access that parses a sidecar
\* whose line count is not the declared count fails with InconsistentCount.
MetadataConsistency ==
    /\ (/\ bd.called
        /\ BuildInconsistent
        /\ bd.of = "Metadata" \/ ~bd.is_checked_early \/ HeaderOk(bd.bed))
       => bd.res.kind = "InconsistentCount"
    /\ AccessChecksCount

\* a handle was built with its header checked and a declared iid_count equal
\* to the length of the given fid, and the access that parsed the .fam file
\* of another line count failed with InconsistentCount
MetadataConsistencyWitness ==
    /\ bd.called
    /\ bd.of = "Bed"
    /\ bd.is_checked_early
    /\ bd.res.kind = "Ok"
    /\ bd.iid_count.some
    /\ bd.metadata["fid"].some
    /\ ac.called
    /\ ac.op = "sex"
    /\ ac.fam.exists
    /\ ac.fam.lines # bd.iid_count.v
    /\ ac.res.kind = "InconsistentCount"

\* a handle build with its header checked, over a valid .bed file, was given
\* two .fam fields of different lengths and failed with InconsistentCount
BuildRejectsLengths ==
    /\ bd.called
    /\ bd.of = "Bed"
    /\ bd.is_checked_early
    /\ HeaderOk(bd.bed)
    /\ Cardinality(PresentLens(bd.metadata, FamFields)) > 1
    /\ bd.res.kind = "InconsistentCount"

\* the header check of a missing .bed file failed a build whose given fields
\* have different lengths
HeaderCheckedBeforeCounts ==
    /\ bd.called
    /\ bd.of = "Bed"
    /\ bd.is_checked_early
    /\ ~bd.bed.exists
    /\ BuildInconsistent
    /\ bd.res.kind = "IOError"

\* I1 and I2 for one sidecar of the handle: the present fields have one
\* length, and a cached count is that length
FieldsAgree(h, fields, count) ==
    /\ Cardinality(PresentLens(h.metadata, fields)) <= 1
    /\ count.some => \A l \in PresentLens(h.metadata, fields) : l = count.v

\* C11 as stated: in every state of a built handle, after calls that
\* returned an error too, all present row fields have the same length and a
\* cached row count equals it, and likewise for the column fields.
HandleInvariants ==
    handle.built
    => /\ FieldsAgree(handle, FamFields, handle.iid_count)
       /\ FieldsAgree(handle, BimFields, handle.sid_count)

\* a handle declared with an iid_count parsed a .fam file of another line
\* count: the access failed with InconsistentCount, and the handle now
\* holds the parsed iid of the file's length beside the declared count
HandleKeepsParsedFieldsAfterError ==
    /\ ac.called
    /\ ac.res.kind = "InconsistentCount"
    /\ ac.before.iid_count.some
    /\ ~ac.before.metadata["iid"].some
    /\ handle.built
    /\ handle.iid_count = ac.before.iid_count
    /\ handle.metadata["iid"].some
    /\ handle.metadata["iid"].v.len = ac.fam.lines
    /\ handle.metadata["iid"].v.len # handle.iid_count.v

----------------------------------------------------------------------------
(* SpecSkip: handles built with fields marked skipped, then accessors.     *)

\* the sets of fields a builder marks skipped (skip_fid, skip_sex, skip_sid)
SkipSets == SUBSET {"fid", "sex", "sid"}

InitSkip ==
    /\ bed = ValidFile(1, 1, 1, 0)
    /\ \/ fam \in SidecarFiles /\ bim = Sidecar(1, TRUE)
       \/ fam = Sidecar(1, TRUE) /\ bim \in SidecarFiles
    /\ handle = NoHandle
    /\ wr = NoWrite
    /\ bd = NoBuild
    /\ rd = NoRead
    /\ ac = NoAccess
    /\ ix = NoEval
    /\ par = NoPar

\* Bed::builder(path) with skipped fields, a declared iid_count, a given fid
OpenSkipping ==
    /\ ~bd.called
    /\ \E skip_set \in SkipSets, iid_count \in DeclaredCounts, fid \in GivenArrays :
           BuildOp(TRUE, iid_count, None, Given("fid", fid, "fid", fid), skip_set)

AccessSkipping == \E op \in MetaOps : AccessOp(op)

NextSkip == OpenSkipping \/ AccessSkipping

SpecSkip == InitSkip /\ [][NextSkip]_vars

\* the sidecar of a field parses, and its line count is the count the
\* handle knows, if it knows one
SidecarFits(h, field, famfile, bimfile) ==
    LET file == IF field \in Range(FamFields) THEN famfile ELSE bimfile
        count == IF field \in Range(FamFields) THEN h.iid_count ELSE h.sid_count
    IN  /\ file.exists
        /\ file.six \/ file.lines = 0
        /\ count.some => count.v = file.lines

----------------------------------------------------------------------------
(* SpecSkipWrite: the bundle of a handle with skipped fields, given to a   *)
(* write.                                                                  *)

\* a dataset of 1..MaxLen rows and one column, with its sidecars
InitSkipWrite ==
    /\ \E n \in 1..MaxLen :
           /\ bed = ValidFile(1, n, 1, 0)
           /\ fam = Sidecar(n, TRUE)
    /\ bim = Sidecar(1, TRUE)
    /\ handle = NoHandle
    /\ wr = NoWrite
    /\ bd = NoBuild
    /\ rd = NoRead
    /\ ac = NoAccess
    /\ ix = NoEval
    /\ par = NoPar

\* Bed::builder(path) with skipped fields
OpenSkippingDataset ==
    /\ ~bd.called
    /\ \E skip_set \in SkipSets, is_checked_early \in BOOLEAN,
          iid_count \in {None, Some(fam.lines)} :
           BuildOp(is_checked_early, iid_count, None, MetadataNew, skip_set)

\* bed.metadata()
ReadBundle ==
    /\ ~ac.called
    /\ AccessOp("metadata")

\* WriteOptions::builder(path).metadata(&bundle).write(&val), the bundle as
\* bed.metadata() returned it
WriteBundle ==
    /\ ac.called
    /\ ac.res.kind = "Ok"
    /\ ~wr.called
    /\ \E mv \in {NaN, I8Missing}, s \in 0..3, fail \in IoFailPoints :
           WriteOp(PatternMatrix(fam.lines, 1, 0, s, mv), TRUE, mv, handle.metadata, fail)

NextSkipWrite == OpenSkippingDataset \/ ReadBundle \/ WriteBundle

SpecSkipWrite == InitSkipWrite /\ [][NextSkipWrite]_vars

\* C13 as stated: a write given the bundle of a handle on which fields were
\* skipped leaves the skipped fields out of the fill with defaults and fails
\* when it emits the sidecars.
SkipGuaranteeOnWrite ==
    (wr.called /\ handle.skip_set # {} /\ wr.fail = "none")
    => /\ \A f \in handle.skip_set :
              ~Metadata_fill(wr.metadata, wr.val.nrows, wr.val.ncols).metadata[f].some
       /\ wr.res.kind # "Ok"

\* with fid skipped on the handle, the write of its bundle succeeded: fid
\* was filled with the default and the .fam file has one line per row
SkippedFieldWrittenAsDefault ==
    /\ wr.called
    /\ handle.skip_set = {"fid"}
    /\ ~wr.metadata["fid"].some
    /\ Metadata_fill(wr.metadata, wr.val.nrows, wr.val.ncols).metadata["fid"]
           = SomeArr(wr.val.nrows, "default")
    /\ wr.res.kind = "Ok"
    /\ fam = Sidecar(wr.val.nrows, TRUE)

----------------------------------------------------------------------------
(* SpecLazy: a handle whose sidecar files are removed while it is in use,  *)
(* so that a call that opens a removed sidecar fails with an I/O error.    *)

\* all six fields of one sidecar given, each of length n
AllGiven(fields, n) ==
    [f \in MetadataFields |-> IF f \in Range(fields) THEN SomeArr(n, "given") ELSE NoArr]

\* a dataset of 1..MaxLen rows and one column; each sidecar there or not
InitLazy ==
    /\ \E n \in 1..MaxLen :
           /\ bed = ValidFile(1, n, 1, 0)
           /\ fam \in {Sidecar(n, TRUE), NoSidecar}
    /\ bim \in {Sidecar(1, TRUE), NoSidecar}
    /\ handle = NoHandle
    /\ wr = NoWrite
    /\ bd = NoBuild
    /\ rd = NoRead
    /\ ac = NoAccess
    /\ ix = NoEval
    /\ par = NoPar

\* the number of rows the .bed file of the dataset holds
RowsOf(file) == CHOOSE n \in 1..MaxLen : file = ValidFile(1, n, 1, 0)

\* Bed::builder(path), counts declared or not, the .fam fields given or not
OpenLazy ==
    /\ ~bd.called
    /\ \E iid_count \in {None, Some(RowsOf(bed))}, sid_count \in {None, Some(1)},
          metadata \in {MetadataNew, AllGiven(FamFields, RowsOf(bed))} :
           BuildOp(TRUE, iid_count, sid_count, metadata, {})

AccessLazy == \E op \in MetaOps : AccessOp(op)

\* bed.read::<f64>()
ReadLazy ==
    /\ ~rd.called
    /\ ReadOp("Bed::read_with_options", IndexAll, IndexAll, TRUE, NaN, 0, 0)

\* the environment removes a sidecar file
RemoveFam ==
    /\ handle.built
    /\ ~rd.called
    /\ fam.exists
    /\ fam' = NoSidecar
    /\ UNCHANGED <<bed, bim, handle, wr, bd, rd, ac, ix, par>>
RemoveBim ==
    /\ handle.built
    /\ ~rd.called
    /\ bim.exists
    /\ bim' = NoSidecar
    /\ UNCHANGED <<bed, fam, handle, wr, bd, rd, ac, ix, par>>

NextLazy == OpenLazy \/ AccessLazy \/ ReadLazy \/ RemoveFam \/ RemoveBim

SpecLazy == InitLazy /\ [][NextLazy]_vars

\* the count and all six fields of a sidecar are present in the handle
InfoPresent(h, fields, count) ==
    /\ count.some
    /\ \A f \in Range(fields) : h.metadata[f].some

\* A call that opens a sidecar that is not there fails with an I/O error.
\* A read on a handle whose counts were declared does not fail so, whatever
\* sidecars exist; nor does a read whose missing sidecars have their count
\* cached (no sidecar is removed after the read, and a read of a missing
\* sidecar caches nothing); a count query with the count cached succeeds.
CountsReused ==
    /\ (rd.called /\ bd.iid_count.some /\ bd.sid_count.some)
       => rd.res.kind # "IOError"
    /\ (rd.called /\ (~fam.exists => rd.iid_count.some)
                  /\ (~bim.exists => rd.sid_count.some))
       => rd.res.kind # "IOError"
    /\ (ac.called /\ ac.op = "iid_count" /\ ac.before.iid_count.some)
       => ac.res.kind = "Ok"
    /\ (ac.called /\ ac.op = "sid_count" /\ ac.before.sid_count.some)
       => ac.res.kind = "Ok"

\* an access among ops whose missing sidecars have their count and six
\* fields in the handle does not fail with an I/O error
NotReopenedBy(ops) ==
    (/\ ac.called
     /\ ac.op \in ops
     /\ ~ac.fam.exists => InfoPresent(ac.before, FamFields, ac.before.iid_count)
     /\ ~ac.bim.exists => InfoPresent(ac.before, BimFields, ac.before.sid_count))
    => ac.res.kind # "IOError"

\* C14 as stated: a read with both counts declared opens no sidecar, a
\* cached count is reused without opening the file, and once the count and
\* the six fields of a sidecar are in the handle no call - field accessor,
\* metadata(), count query or read - opens that sidecar again.
SidecarsOpenedOnlyWhenNeeded == CountsReused /\ NotReopenedBy(MetaOps)

\* the same for every call but metadata()
SidecarsOpenedOnlyWhenNeededButMetadata ==
    CountsReused /\ NotReopenedBy(MetaOps \ {"metadata"})

\* metadata() on a handle that holds both counts and all twelve fields
\* opened the .fam file again: the file had been removed, the call failed
MetadataReopensSidecar ==
    /\ ac.called
    /\ ac.op = "metadata"
    /\ InfoPresent(ac.before, FamFields, ac.before.iid_count)
    /\ InfoPresent(ac.before, BimFields, ac.before.sid_count)
    /\ ~ac.fam.exists
    /\ ac.res.kind = "IOError"

\* a read on a handle built with both counts declared succeeded with
\* neither sidecar on disk
ReadWithoutSidecars ==
    /\ rd.called
    /\ bd.iid_count.some
    /\ bd.sid_count.some
    /\ ~fam.exists
    /\ ~bim.exists
    /\ rd.res.kind = "Ok"

----------------------------------------------------------------------------
(* The early header check, under SpecDecode.                                *)

HeaderErrors == {"IOError", "IllFormed", "BadMode"}

\* C16: building a handle with the default settings returns an error when
\* the .bed file is missing or its header is ill-formed (wrong magic bytes
\* or an orientation byte other than 0 or 1); with skip_early_check the build
\* succeeds on such a file and the read reports the header error.
EarlyHeaderCheck ==
    (bd.called /\ bd.of = "Bed" /\ ~HeaderOk(bd.bed))
    => /\ bd.is_checked_early => bd.res.kind # "Ok"
       /\ ~bd.is_checked_early
          => /\ bd.res = Ok
             /\ rd.called => rd.res.kind \in HeaderErrors

\* The same without the orientation byte: the magic bytes are checked by
\* the build, any header error is left to the read with skip_early_check.
EarlyMagicCheck ==
    (bd.called /\ bd.of = "Bed")
    => /\ (bd.is_checked_early /\ bd.res = Ok)
          => /\ bd.bed.exists
             /\ Len(bd.bed.bytes) >= CB_HEADER_USIZE
             /\ bd.bed.bytes[1] = BED_FILE_MAGIC1
             /\ bd.bed.bytes[2] = BED_FILE_MAGIC2
       /\ ~bd.is_checked_early
          => /\ bd.res = Ok
             /\ (rd.called /\ ~HeaderOk(bd.bed)) => rd.res.kind \in HeaderErrors

\* a file with the magic bytes and an orientation byte of 2 was opened with
\* the default settings, and only the read reported the byte
BadOrientationBuilt ==
    /\ bd.called
    /\ bd.is_checked_early
    /\ bd.res = Ok
    /\ bd.bed = BedOf(<<BED_FILE_MAGIC1, BED_FILE_MAGIC2, 2>>)
    /\ rd.called
    /\ rd.res.kind = "BadMode"

\* a file with wrong magic bytes was opened with skip_early_check, and the
\* read reported the header
LateHeaderError ==
    /\ bd.called
    /\ ~bd.is_checked_early
    /\ bd.res = Ok
    /\ bd.bed = BedOf(<<0, BED_FILE_MAGIC2, 1>>)
    /\ rd.called
    /\ rd.res.kind = "IllFormed"

\* a missing file was refused by the build with the default settings
MissingFileRefused ==
    /\ bd.called
    /\ bd.is_checked_early
    /\ bd.bed = NoBed
    /\ bd.res.kind = "IOError"

----------------------------------------------------------------------------
(* Fill with defaults: bundles of given arrays of any length, filled for   *)
(* any counts.                                                              *)

FilledFields == {"iid", "sex", "sid", "allele_1"}

\* bundles with some of iid, sex, sid and allele_1 given
Bundles ==
    {[f \in MetadataFields |-> IF f \in FilledFields THEN g[f] ELSE NoArr] :
        g \in [FilledFields -> GivenArrays]}

InitFill == InitEmpty

FillBundle ==
    /\ ~bd.called
    /\ \E metadata \in Bundles, iid_count \in 0..MaxLen, sid_count \in 0..MaxLen :
           FillOp(metadata, iid_count, sid_count)

NextFill == FillBundle

SpecFill == InitFill /\ [][NextFill]_vars

CountFor(field) ==
    IF field \in Range(FamFields) THEN bd.iid_count.v ELSE bd.sid_count.v

WrongLength ==
    {f \in MetadataFields : bd.metadata[f].some /\ bd.metadata[f].v.len # CountFor(f)}

\* C15: Metadata::fill(iid_count, sid_count) fails with InconsistentCount
\* when a present field's length differs from its count; otherwise it leaves
\* every present field unchanged and sets every unset field to count
\* defaults: "0" for fid, father, mother, pheno and chromosome; 0 for sex,
\* cm_position and bp_position; "iid1".."iid<iid_count>" and
\* "sid1".."sid<sid_count>"; "A1" for allele_1 and "A2" for allele_2.
FillWithDefaults ==
    (bd.called /\ bd.of = "Metadata::fill")
    => /\ WrongLength # {} => bd.res.kind = "InconsistentCount"
       /\ WrongLength = {}
          => /\ bd.res = Ok
             /\ \A f \in MetadataFields :
                    /\ bd.metadata[f].some => bd.filled[f] = bd.metadata[f]
                    /\ ~bd.metadata[f].some
                       => /\ bd.filled[f].some
                          /\ bd.filled[f].v.len = CountFor(f)
             /\ \A f \in {"fid", "father", "mother", "pheno", "chromosome"} :
                \A i \in 0..(CountFor(f) - 1) :
                    ~bd.metadata[f].some => ElementAt(f, bd.filled[f].v, i) = Text("0")
             /\ \A f \in {"sex", "cm_position", "bp_position"} :
                \A i \in 0..(CountFor(f) - 1) :
                    ~bd.metadata[f].some => ElementAt(f, bd.filled[f].v, i) = Number(0)
             /\ \A f \in {"iid", "sid"} : \A i \in 1..CountFor(f) :
                    ~bd.metadata[f].some
                    => ElementAt(f, bd.filled[f].v, i - 1) = Numbered(f, i)
             /\ \A i \in 0..(bd.sid_count.v - 1) :
                    /\ ~bd.metadata["allele_1"].some
                       => ElementAt("allele_1", bd.filled["allele_1"].v, i) = Text("A1")
                    /\ ElementAt("allele_2", bd.filled["allele_2"].v, i) = Text("A2")

\* a bundle with sex given for two rows and iid unset was filled for two rows
\* and two columns: sex is kept, iid and sid are named from 1
FillWithDefaultsWitness ==
    /\ bd.called
    /\ bd.of = "Metadata::fill"
    /\ bd.res = Ok
    /\ bd.iid_count = Some(2)
    /\ bd.sid_count = Some(2)
    /\ bd.metadata["sex"] = SomeArr(2, "given")
    /\ ~bd.metadata["iid"].some
    /\ bd.filled["sex"] = SomeArr(2, "given")
    /\ ElementAt("iid", bd.filled["iid"].v, 1) = Numbered("iid", 2)
    /\ ElementAt("sid", bd.filled["sid"].v, 0) = Numbered("sid", 1)

\* a bundle whose given iid has a length other than iid_count was refused
FillRefusesWrongLength ==
    /\ bd.called
    /\ bd.of = "Metadata::fill"
    /\ bd.metadata["iid"].some
    /\ bd.metadata["iid"].v.len # bd.iid_count.v
    /\ bd.res.kind = "InconsistentCount"

----------------------------------------------------------------------------
(* SpecKinds: indexes of every kind, evaluated against a count with        *)
(* Index::len and Index::to_vec, or used to read along one axis of a       *)
(* dataset of either orientation.                                          *)

Masks(count) == SeqsUpTo(BOOLEAN, count + 1)

\* Option<usize> bounds up to one past the count
Bounds(count) == {None} \cup {Some(n) : n \in 0..(count + 1)}

\* isize bounds from one before -count to one past count
SignedBounds(count) == (-count - 1)..(count + 1)

Steps == -2..2

KindIndexes(count) ==
    Indexes(count, MaxIndexLen)
        \cup {IndexNDArray(v) : v \in SeqsUpTo(Positions(count), MaxIndexLen)}
        \cup {IndexVecBool(m) : m \in Masks(count)}
        \cup {IndexNDArrayBool(m) : m \in Masks(count)}
        \cup {IndexRangeAny(start, end) : start \in Bounds(count), end \in Bounds(count)}
        \cup {IndexNDSliceInfo(start, end, step) :
                 start \in SignedBounds(count),
                 end \in {None} \cup {Some(e) : e \in SignedBounds(count)},
                 step \in Steps}
        \cup {IndexNDSliceNewAxis} \cup {IndexNDSliceIndex(i) : i \in {0, count}}

KindShapes == {<<MaxCount, 1>>, <<1, MaxCount>>}

InitKinds ==
    /\ \E sh \in KindShapes, mode \in {0, 1} :
         /\ bed = ValidFile(mode, sh[1], sh[2], 1)
         /\ fam = Sidecar(sh[1], TRUE)
         /\ bim = Sidecar(sh[2], TRUE)
    /\ handle = NoHandle
    /\ wr = NoWrite
    /\ bd = NoBuild
    /\ rd = NoRead
    /\ ac = NoAccess
    /\ ix = NoEval
    /\ par = NoPar

\* Bed::new(path)
OpenKinds ==
    /\ ~handle.built
    /\ BuildOp(TRUE, None, None, MetadataNew, {})

\* index.len(count), index.to_vec(count)
Evaluate ==
    /\ ~ix.called
    /\ ~rd.called
    /\ \E count \in 0..MaxCount : \E index \in KindIndexes(count) : EvalOp(index, count)

\* ReadOptions::builder().iid_index(index).read(&mut bed)
ReadRows ==
    /\ ~rd.called
    /\ ~ix.called
    /\ handle.built
    /\ \E a1 \in BOOLEAN : \E iid_index \in KindIndexes(fam.lines) :
           ReadOp("Bed::read_with_options", iid_index, IndexAll, a1, NaN, 0, 0)

\* ReadOptions::builder().sid_index(index).read(&mut bed)
ReadColumns ==
    /\ ~rd.called
    /\ ~ix.called
    /\ handle.built
    /\ \E a1 \in BOOLEAN : \E sid_index \in KindIndexes(bim.lines) :
           ReadOp("Bed::read_with_options", IndexAll, sid_index, a1, NaN, 0, 0)

NextKinds == OpenKinds \/ Evaluate \/ ReadRows \/ ReadColumns

SpecKinds == InitKinds /\ [][NextKinds]_vars

\* C17: for every Index variant and every count N, Index::len(N) is the
\* number of positions Index::to_vec(N) returns, and Index::len(N) fails
\* whenever Index::to_vec(N) fails.
LengthContract ==
    ix.called
    => /\ ix.to_vec.res.kind = "Ok"
          => ix.len.res.kind = "Ok" /\ ix.len.len = Len(ix.to_vec.vec)
       /\ ix.to_vec.res.kind # "Ok" => ix.len.res.kind # "Ok"

\* Where Index::to_vec returns positions, Index::len is their number.
LengthOfReturnedPositions ==
    (ix.called /\ ix.to_vec.res.kind = "Ok")
    => ix.len.res.kind = "Ok" /\ ix.len.len = Len(ix.to_vec.vec)

\* Index::to_vec fails and Index::len does not only for a mask of the wrong
\* length and for a reversed slice that ends at 0.
LengthFailsWithToVec ==
    (ix.called /\ ix.to_vec.res.kind # "Ok" /\ ix.len.res.kind = "Ok")
    => \/ ix.index.kind \in {"VecBool", "NDArrayBool"} /\ Len(ix.index.mask) # ix.count
       \/ ix.index.kind = "NDSliceInfo" /\ ix.index.step < 0

\* a mask of two entries was evaluated against a count of 3: Index::len
\* returned the number of true entries, Index::to_vec failed
MaskLenWithoutLengthCheck ==
    /\ ix.called
    /\ ix.index = IndexVecBool(<<TRUE, FALSE>>)
    /\ ix.count = 3
    /\ ix.len = [res |-> Ok, len |-> 1]
    /\ ix.to_vec.res.kind = "BoolArrayVectorWrongLength"

\* the slice s![..0;-1] was evaluated: Index::len returned 0, Index::to_vec
\* did not return
ReversedEmptySliceOverflows ==
    /\ ix.called
    /\ ix.index = IndexNDSliceInfo(0, Some(0), -1)
    /\ ix.len = [res |-> Ok, len |-> 0]
    /\ ix.to_vec.res.kind = "Panic"

SignedKinds == {"One", "Vec", "NDArray"}

\* the values of a Single index or of a vector of signed positions
SignedValues(index) == IF index.kind = "One" THEN <<index.one>> ELSE index.vec

Resolved(v, count) == IF v >= 0 THEN v ELSE count + v

\* C18 as stated: Index::to_vec returns the positions of a Single index and
\* of a vector of signed positions resolved (v if v >= 0, else N + v), and
\* fails when a value is out of range.
MaterializationResolves ==
    (ix.called /\ ix.index.kind \in SignedKinds)
    => LET values == SignedValues(ix.index)
       IN  IF OutOfRange(values, ix.count) = {}
           THEN /\ ix.to_vec.res.kind = "Ok"
                /\ ix.to_vec.vec = [i \in 1..Len(values) |-> Resolved(values[i], ix.count)]
           ELSE ix.to_vec.res.kind # "Ok"

\* C18, for what Index::to_vec and the read do: Index::to_vec returns the
\* values of a Single index and of a vector of signed positions as they are,
\* for every value; the read resolves each value v with -N <= v < N to v if
\* v >= 0 and to N + v otherwise, and fails with IidIndexTooBig or
\* SidIndexTooBig, naming an out-of-range value, when there is one.
SignedPositionsResolvedByRead ==
    /\ (ix.called /\ ix.index.kind \in SignedKinds)
       => ix.to_vec = [res |-> Ok, vec |-> SignedValues(ix.index)]
    /\ (rd.called /\ {rd.iid_index.kind, rd.sid_index.kind} \subseteq SignedKinds \cup {"All"})
       => LET R == rd.iid_count.v
              C == rd.sid_count.v
              rows == PositionList(rd.iid_index, R)
              cols == PositionList(rd.sid_index, C)
              bad == OutOfRange(rows, R) \cup OutOfRange(cols, C)
          IN  IF bad = {}
              THEN /\ rd.res.kind = "Ok"
                   /\ rd.val.nrows = Len(rows)
                   /\ rd.val.ncols = Len(cols)
                   /\ \A i \in 1..Len(rows) : \A j \in 1..Len(cols) :
                          rd.val.a[i][j] =
                              CodeValue(DiskCode(rd.bed.bytes, R, C,
                                                 Resolved(rows[i], R) + 1,
                                                 Resolved(cols[j], C) + 1),
                                        rd.is_a1_counted, rd.missing_value)
              ELSE /\ rd.res.kind \in {"IidIndexTooBig", "SidIndexTooBig"}
                   /\ rd.res.arg \in bad

\* the Single index -1 was evaluated against a count of 3: Index::to_vec
\* returned [-1]
SignedPositionKept ==
    /\ ix.called
    /\ ix.index = IndexOne(-1)
    /\ ix.count = 3
    /\ ix.to_vec = [res |-> Ok, vec |-> <<-1>>]

\* a read with the row positions [-1, 0] of a dataset of MaxCount rows
\* returned the last and the first row, which differ
NegativeRowRead ==
    /\ rd.called
    /\ rd.res.kind = "Ok"
    /\ rd.iid_index = IndexVec(<<-1, 0>>)
    /\ rd.iid_count = Some(MaxCount)
    /\ rd.val.a[1][1] # rd.val.a[2][1]

\* a read with a row position out of range failed
OutOfRangeRowRead ==
    /\ rd.called
    /\ rd.iid_index = IndexOne(-MaxCount - 1)
    /\ rd.res.kind \in {"IidIndexTooBig", "SidIndexTooBig"}
    /\ rd.res.arg = -MaxCount - 1

MaskKinds == {"VecBool", "NDArrayBool"}

\* the list holds, in ascending order, exactly the positions at which the
\* mask is true
AscendingTrue(list, mask) ==
    /\ \A i \in 1..(Len(list) - 1) : list[i] < list[i + 1]
    /\ Range(list) = {i - 1 : i \in {k \in 1..Len(mask) : mask[k]}}

WrongLengthError(res, count) ==
    res.kind = "BoolArrayVectorWrongLength" /\ res.arg = count

\* what C19 says of Index::len
MaskLen ==
    (ix.called /\ ix.index.kind \in MaskKinds)
    => IF Len(ix.index.mask) # ix.count THEN WrongLengthError(ix.len.res, ix.count)
       ELSE ix.len.res.kind = "Ok"

\* what C19 says of Index::to_vec
MaskToVec ==
    (ix.called /\ ix.index.kind \in MaskKinds)
    => IF Len(ix.index.mask) # ix.count THEN WrongLengthError(ix.to_vec.res, ix.count)
       ELSE /\ ix.to_vec.res.kind = "Ok"
            /\ AscendingTrue(ix.to_vec.vec, ix.index.mask)

\* what C19 says of a read, for a mask on either axis
MaskRead ==
    /\ (rd.called /\ rd.iid_index.kind \in MaskKinds)
       => LET R == rd.iid_count.v
              mask == rd.iid_index.mask
              rows == TruePositions(mask)
          IN  IF Len(mask) # R THEN WrongLengthError(rd.res, R)
              ELSE /\ rd.res.kind = "Ok"
                   /\ rd.val.nrows = Len(rows)
                   /\ AscendingTrue(rows, mask)
                   /\ \A i \in 1..Len(rows) : \A j \in 1..rd.sid_count.v :
                          rd.val.a[i][j] =
                              CodeValue(DiskCode(rd.bed.bytes, R, rd.sid_count.v,
                                                 rows[i] + 1, j),
                                        rd.is_a1_counted, rd.missing_value)
    /\ (rd.called /\ rd.sid_index.kind \in MaskKinds)
       => LET C == rd.sid_count.v
              mask == rd.sid_index.mask
              cols == TruePositions(mask)
          IN  IF Len(mask) # C THEN WrongLengthError(rd.res, C)
              ELSE /\ rd.res.kind = "Ok"
                   /\ rd.val.ncols = Len(cols)
                   /\ AscendingTrue(cols, mask)
                   /\ \A i \in 1..rd.iid_count.v : \A j \in 1..Len(cols) :
                          rd.val.a[i][j] =
                              CodeValue(DiskCode(rd.bed.bytes, rd.iid_count.v, C,
                                                 i, cols[j] + 1),
                                        rd.is_a1_counted, rd.missing_value)

\* C19: evaluating a boolean mask against count N fails with
\* BoolArrayVectorWrongLength whenever the mask's length is not N, for
\* Index::len, for Index::to_vec and for a read using it; otherwise it
\* yields, in ascending order, exactly the positions at which the mask is
\* true.
BooleanMask == MaskLen /\ MaskToVec /\ MaskRead

\* The same without Index::len.
BooleanMaskButLen == MaskToVec /\ MaskRead

\* a mask of four true entries was evaluated against a count of 3:
\* Index::len returned 4
LongMaskHasLen ==
    /\ ix.called
    /\ ix.index = IndexNDArrayBool(<<TRUE, TRUE, TRUE, TRUE>>)
    /\ ix.count = 3
    /\ ix.len = [res |-> Ok, len |-> 4]
    /\ WrongLengthError(ix.to_vec.res, 3)

\* a read with a row mask of the wrong length failed
WrongLengthMaskRead ==
    /\ rd.called
    /\ rd.iid_index.kind = "VecBool"
    /\ Len(rd.iid_index.mask) = rd.iid_count.v + 1
    /\ WrongLengthError(rd.res, rd.iid_count.v)

\* a read with the row mask [true, false, true] returned two rows
MaskedRead ==
    /\ rd.called
    /\ rd.iid_index = IndexVecBool(<<TRUE, FALSE, TRUE>>)
    /\ rd.res.kind = "Ok"
    /\ rd.val.nrows = 2

RangeStart(index) == IF index.start.some THEN index.start.v ELSE 0
RangeEnd(index, count) == IF index.end.some THEN index.end.v ELSE count

\* slicing a list of length count with the same Rust range is valid
SliceValid(index, count) ==
    /\ RangeStart(index) <= RangeEnd(index, count)
    /\ RangeEnd(index, count) <= count

\* the positions that slice selects
SlicePositions(index, count) ==
    [i \in 1..(RangeEnd(index, count) - RangeStart(index)) |-> RangeStart(index) + i - 1]

\* a failure, StartGreaterThanEnd when start > end
RangeFailure(res, index, count) ==
    /\ res.kind # "Ok"
    /\ RangeStart(index) > RangeEnd(index, count) => res.kind = "StartGreaterThanEnd"

\* the read returned the listed rows of every column
ReadSelectsRows(rows) ==
    /\ rd.res.kind = "Ok"
    /\ rd.val.nrows = Len(rows)
    /\ rd.val.ncols = rd.sid_count.v
    /\ \A i \in 1..Len(rows) : \A j \in 1..rd.sid_count.v :
           rd.val.a[i][j] =
               CodeValue(DiskCode(rd.bed.bytes, rd.iid_count.v, rd.sid_count.v,
                                  rows[i] + 1, j),
                         rd.is_a1_counted, rd.missing_value)

\* the read returned the listed columns of every row
ReadSelectsColumns(cols) ==
    /\ rd.res.kind = "Ok"
    /\ rd.val.nrows = rd.iid_count.v
    /\ rd.val.ncols = Len(cols)
    /\ \A i \in 1..rd.iid_count.v : \A j \in 1..Len(cols) :
           rd.val.a[i][j] =
               CodeValue(DiskCode(rd.bed.bytes, rd.iid_count.v, rd.sid_count.v,
                                  i, cols[j] + 1),
                         rd.is_a1_counted, rd.missing_value)

\* C20: with start defaulting to 0 and end to N, Index::len, Index::to_vec
\* and a read with a range index fail exactly when slicing a list of length
\* N with the same range is invalid (start > end, StartGreaterThanEnd, or a
\* bound greater than N), and otherwise select the positions of that slice.
UnsignedRange ==
    /\ (ix.called /\ ix.index.kind = "RangeAny")
       => IF SliceValid(ix.index, ix.count)
          THEN /\ ix.len = [res |-> Ok, len |-> Len(SlicePositions(ix.index, ix.count))]
               /\ ix.to_vec = [res |-> Ok, vec |-> SlicePositions(ix.index, ix.count)]
          ELSE /\ RangeFailure(ix.len.res, ix.index, ix.count)
               /\ RangeFailure(ix.to_vec.res, ix.index, ix.count)
    /\ (rd.called /\ rd.iid_index.kind = "RangeAny")
       => IF SliceValid(rd.iid_index, rd.iid_count.v)
          THEN ReadSelectsRows(SlicePositions(rd.iid_index, rd.iid_count.v))
          ELSE RangeFailure(rd.res, rd.iid_index, rd.iid_count.v)
    /\ (rd.called /\ rd.sid_index.kind = "RangeAny")
       => IF SliceValid(rd.sid_index, rd.sid_count.v)
          THEN ReadSelectsColumns(SlicePositions(rd.sid_index, rd.sid_count.v))
          ELSE RangeFailure(rd.res, rd.sid_index, rd.sid_count.v)

\* What holds of a range index: a valid slice is selected by all three, and
\* start > end fails in all three with StartGreaterThanEnd; with start <= end
\* and end > N, Index::len and Index::to_vec succeed, and the read fails
\* with IidIndexTooBig or SidIndexTooBig unless the range is empty.
UnsignedRangeWithinCount ==
    /\ (ix.called /\ ix.index.kind = "RangeAny")
       => IF RangeStart(ix.index) > RangeEnd(ix.index, ix.count)
          THEN /\ ix.len.res.kind = "StartGreaterThanEnd"
               /\ ix.to_vec.res.kind = "StartGreaterThanEnd"
          ELSE /\ ix.len = [res |-> Ok, len |-> Len(SlicePositions(ix.index, ix.count))]
               /\ ix.to_vec = [res |-> Ok, vec |-> SlicePositions(ix.index, ix.count)]
    /\ (rd.called /\ rd.iid_index.kind = "RangeAny")
       => LET index == rd.iid_index
              N == rd.iid_count.v
          IN  IF RangeStart(index) > RangeEnd(index, N)
              THEN rd.res.kind = "StartGreaterThanEnd"
              ELSE IF SliceValid(index, N) \/ RangeStart(index) = RangeEnd(index, N)
              THEN ReadSelectsRows(SlicePositions(index, N))
              ELSE rd.res.kind \in {"IidIndexTooBig", "SidIndexTooBig"}
    /\ (rd.called /\ rd.sid_index.kind = "RangeAny")
       => LET index == rd.sid_index
              N == rd.sid_count.v
          IN  IF RangeStart(index) > RangeEnd(index, N)
              THEN rd.res.kind = "StartGreaterThanEnd"
              ELSE IF SliceValid(index, N) \/ RangeStart(index) = RangeEnd(index, N)
              THEN ReadSelectsColumns(SlicePositions(index, N))
              ELSE rd.res.kind \in {"IidIndexTooBig", "SidIndexTooBig"}

\* the range ..4 was evaluated against a count of 3: Index::len returned 4
\* and Index::to_vec the positions 0 to 3
RangePastCountHasLen ==
    /\ ix.called
    /\ ix.index = IndexRangeAny(None, Some(4))
    /\ ix.count = 3
    /\ ix.len = [res |-> Ok, len |-> 4]
    /\ ix.to_vec = [res |-> Ok, vec |-> <<0, 1, 2, 3>>]

\* a read with the empty row range that starts and ends one past the count
\* succeeded, with no rows
EmptyRangePastCountRead ==
    /\ rd.called
    /\ rd.iid_index = IndexRangeAny(Some(rd.iid_count.v + 1), Some(rd.iid_count.v + 1))
    /\ rd.res.kind = "Ok"
    /\ rd.val.nrows = 0

\* a read with the row range 1..MaxCount returned the rows after the first
RangeRead ==
    /\ rd.called
    /\ rd.iid_index = IndexRangeAny(Some(1), Some(MaxCount))
    /\ rd.iid_count = Some(MaxCount)
    /\ rd.res.kind = "Ok"
    /\ rd.val.nrows = MaxCount - 1

----------------------------------------------------------------------------
(* Strided slices, under SpecKinds.                                        *)

Reverse(list) == [i \in 1..Len(list) |-> list[Len(list) + 1 - i]]

\* the slice with the same bounds and the step |step|
ForwardOf(index) == IndexNDSliceInfo(index.start.v, index.end, -index.step)

ReversedSliceEvaluated ==
    ix.called /\ ix.index.kind = "NDSliceInfo" /\ ix.index.elem = "Slice" /\ ix.index.step < 0

\* C21 as stated: for every slice with a negative step and every count,
\* Index::to_vec returns the reverse of the list the slice with the same
\* bounds and the step |step| produces.
ReversedSliceIsReverse ==
    ReversedSliceEvaluated
    => LET forward == Index_to_vec(ForwardOf(ix.index), ix.count)
       IN  /\ ix.to_vec.res = forward.res
           /\ ix.to_vec.vec = Reverse(forward.vec)

\* C21, for what Index::to_vec does: a slice with a negative step is
\* refused as the slice with the step |step| is; with resolved bounds s > e
\* it is empty; with e = 0 the call does not return; otherwise it lists
\* e-1, e-1-|step|, ... down to and not below s, which is the reverse of the
\* list of the slice with the step |step| exactly when the list is empty or
\* |step| divides e-1-s.
ReversedSliceFromEnd ==
    ReversedSliceEvaluated
    => LET forward == Index_to_vec(ForwardOf(ix.index), ix.count)
           r == RangeNdSlice_new(ix.index, ix.count)
           n == Len(forward.vec)
       IN  IF forward.res.kind # "Ok"
           THEN ix.to_vec.res = forward.res
           ELSE IF r.start > r.end THEN ix.to_vec = [res |-> Ok, vec |-> <<>>]
           ELSE IF r.end = 0 THEN ix.to_vec.res.kind = "Panic"
           ELSE /\ ix.to_vec.res.kind = "Ok"
                /\ ix.to_vec.vec = [i \in 1..n |-> r.end - 1 - (i - 1) * r.step]
                /\ (ix.to_vec.vec = Reverse(forward.vec))
                   <=> (n = 0 \/ (r.end - 1 - r.start) % r.step = 0)

\* the slice s![0..2;-2] was evaluated against a count of 3: Index::to_vec
\* returned [1], the slice s![0..2;2] gives [0]
ReversedSliceStartsAtEnd ==
    /\ ix.called
    /\ ix.index = IndexNDSliceInfo(0, Some(2), -2)
    /\ ix.count = 3
    /\ ix.to_vec = [res |-> Ok, vec |-> <<1>>]
    /\ Index_to_vec(ForwardOf(ix.index), ix.count).vec = <<0>>

\* a start or end counted from the back when negative
FromBack(k, count) == IF k >= 0 THEN k ELSE count + k

SliceStart(index, count) == FromBack(index.start.v, count)
SliceEnd(index, count) == IF index.end.some THEN FromBack(index.end.v, count) ELSE count

Abs(k) == IF k >= 0 THEN k ELSE -k

\* a slice index whose resolved bounds are 0 <= s <= e <= N
SliceWithin(index, count) ==
    /\ index.kind = "NDSliceInfo"
    /\ index.elem = "Slice"
    /\ index.step # 0
    /\ Abs(index.start.v) <= count
    /\ index.end.some => Abs(index.end.v) <= count
    /\ SliceStart(index, count) <= SliceEnd(index, count)

Ascending(S) ==
    CHOOSE list \in [1..Cardinality(S) -> S] :
        /\ Range(list) = S
        /\ \A i \in 1..(Cardinality(S) - 1) : list[i] < list[i + 1]

\* what slicing 0..count-1 with the slice gives in ndarray: from s upwards
\* by step below e, or from e-1 downwards by |step| not below s
NdarraySlice(index, count) ==
    LET b == SliceStart(index, count)
        e == SliceEnd(index, count)
        k == Abs(index.step)
    IN  IF index.step > 0
        THEN Ascending({p \in b..(e - 1) : (p - b) % k = 0})
        ELSE Reverse(Ascending({p \in b..(e - 1) : (e - 1 - p) % k = 0}))

\* a slice with a negative step whose resolved end is 0
EndsAtZero(index, count) == index.step < 0 /\ SliceEnd(index, count) = 0

StridedSliceFor(with_zero) ==
    /\ (ix.called /\ SliceWithin(ix.index, ix.count) /\ (with_zero \/ ~EndsAtZero(ix.index, ix.count)))
       => ix.to_vec = [res |-> Ok, vec |-> NdarraySlice(ix.index, ix.count)]
    /\ (rd.called /\ SliceWithin(rd.iid_index, rd.iid_count.v)
          /\ (with_zero \/ ~EndsAtZero(rd.iid_index, rd.iid_count.v)))
       => ReadSelectsRows(NdarraySlice(rd.iid_index, rd.iid_count.v))
    /\ (rd.called /\ SliceWithin(rd.sid_index, rd.sid_count.v)
          /\ (with_zero \/ ~EndsAtZero(rd.sid_index, rd.sid_count.v)))
       => ReadSelectsColumns(NdarraySlice(rd.sid_index, rd.sid_count.v))

\* C22: with resolved bounds 0 <= s <= e <= N, a positive step yields s,
\* s+step, ... below e and a negative step yields e-1, e-1-|step|, ... down
\* to and not below s; a read with such an index returns the rows (columns)
\* ndarray slicing of the full matrix with the same slice returns.
StridedSlice == StridedSliceFor(TRUE)

\* The same, but for the slices with a negative step whose resolved end is 0.
StridedSliceButEndingAtZero == StridedSliceFor(FALSE)

\* a read with the row slice s![..0;-1], empty in ndarray, did not return
ReadWithEmptyReversedSlice ==
    /\ rd.called
    /\ rd.iid_index = IndexNDSliceInfo(0, Some(0), -1)
    /\ rd.iid_count = Some(MaxCount)
    /\ rd.res.kind = "Panic"

\* a read with the row slice s![-3..-1;-2] of a dataset of MaxCount rows
\* returned one row, the third from last
ReadWithReversedSlice ==
    /\ rd.called
    /\ rd.iid_index = IndexNDSliceInfo(-3, Some(-1), -2)
    /\ rd.iid_count = Some(MaxCount)
    /\ ReadSelectsRows(<<MaxCount - 2>>)

\* the slice s![0..3;2] was evaluated against a count of 3
ForwardSliceEvaluated ==
    /\ ix.called
    /\ ix.index = IndexNDSliceInfo(0, Some(3), 2)
    /\ ix.count = 3
    /\ ix.to_vec = [res |-> Ok, vec |-> <<0, 2>>]

\* the errors of the conditions of RangeNdSlice::new a slice violates
SliceViolations(index, count) ==
    (IF index.step = 0 THEN {"StepZero"} ELSE {})
        \cup (IF Abs(index.start.v) > count THEN {"StartGreaterThanCount"} ELSE {})
        \cup (IF index.end.some /\ Abs(index.end.v) > count
              THEN {"EndGreaterThanCount"} ELSE {})

\* C23: against count N, a slice with step 0 fails with StepZero, a NewAxis
\* element with NewAxis, a start (end) whose absolute value exceeds N with
\* StartGreaterThanCount (EndGreaterThanCount); a negative start or end k
\* resolves to N + k; a resolved start greater than the resolved end is no
\* error and selects no position.
SliceValidation ==
    (ix.called /\ ix.index.kind = "NDSliceInfo" /\ ix.index.elem # "Index")
    => LET index == ix.index
           N == ix.count
           violated == SliceViolations(index, N)
       IN  IF index.elem = "NewAxis"
           THEN ix.len.res.kind = "NewAxis" /\ ix.to_vec.res.kind = "NewAxis"
           ELSE IF violated # {}
           THEN ix.len.res.kind \in violated /\ ix.to_vec.res = ix.len.res
           ELSE IF SliceStart(index, N) > SliceEnd(index, N)
           THEN /\ ix.len = [res |-> Ok, len |-> 0]
                /\ ix.to_vec = [res |-> Ok, vec |-> <<>>]
           ELSE /\ ix.len = [res |-> Ok, len |-> Len(NdarraySlice(index, N))]
                /\ ix.to_vec.res.kind = "Ok" => ix.to_vec.vec = NdarraySlice(index, N)

\* the slice s![-2..-3] was evaluated against a count of 3: its bounds
\* resolve to 1 and 0 and it selects nothing
SliceValidationWitness ==
    /\ ix.called
    /\ ix.index = IndexNDSliceInfo(-2, Some(-3), 1)
    /\ ix.count = 3
    /\ ix.len = [res |-> Ok, len |-> 0]
    /\ ix.to_vec = [res |-> Ok, vec |-> <<>>]

\* a NewAxis element was refused
NewAxisRefused ==
    /\ ix.called
    /\ ix.index = IndexNDSliceNewAxis
    /\ ix.to_vec.res.kind = "NewAxis"

\* the slice s![-2..] was evaluated against a count of 3: [1, 2]
NegativeStartFromBack ==
    /\ ix.called
    /\ ix.index = IndexNDSliceInfo(-2, None, 1)
    /\ ix.count = 3
    /\ ix.to_vec = [res |-> Ok, vec |-> <<1, 2>>]

----------------------------------------------------------------------------
(* SpecParRead: internal_read_no_alloc step by step.  The checks, then the *)
(* pipeline: the serial iterator (seek, read_exact, zip with the next      *)
(* output column) is pulled by the workers of par_bridge one item at a     *)
(* time, behind the bridge's lock; each worker decodes the item it pulled  *)
(* into the column the item holds.  The file has orientation 1, or         *)
(* orientation 0 with the counts and indexes swapped by read_no_alloc.     *)

\* the counts internal_read_no_alloc is called with
ParIidCount == MaxSid
ParSidCount == MaxCount

ParFiles ==
    {ValidFile(1, ParIidCount, ParSidCount, 1), ValidFile(0, ParSidCount, ParIidCount, 1)}

ParIidIndexes == {<<0>>, <<-1, 0>>, <<ParIidCount>>}
ParSidIndexes == SeqsUpTo(Positions(ParSidCount), MaxIndexLen)

InitParRead ==
    /\ bed \in ParFiles
    /\ fam = NoSidecar
    /\ bim = NoSidecar
    /\ handle = NoHandle
    /\ wr = NoWrite
    /\ bd = NoBuild
    /\ rd = NoRead
    /\ ac = NoAccess
    /\ ix = NoEval
    /\ par = NoPar

ParDiv4 == try_div_4(ParIidCount, ParSidCount, CB_HEADER_U64, U64_MAX)
ParPre == check_and_precompute_iid_index(ParIidCount, par.iid_index)
ParTable == set_up_two_bits_to_value(TRUE, NaN)

ParStep(p) ==
    /\ par' = p
    /\ UNCHANGED <<bed, fam, bim, handle, wr, bd, rd, ac, ix>>

\* the checks before the pipeline: try_div_4, the length of the file,
\* check_and_precompute_iid_index
BeginRead ==
    /\ par.phase = "none"
    /\ \E iid_index \in ParIidIndexes, sid_index \in ParSidIndexes :
         LET p == [NoPar EXCEPT !.call = "read", !.iid_index = iid_index,
                                !.sid_index = sid_index,
                                !.val = DefaultArray(Len(iid_index), Len(sid_index))]
             pre == check_and_precompute_iid_index(ParIidCount, iid_index)
             failed(res) == [p EXCEPT !.phase = "done", !.res = res]
         IN  IF ~ParDiv4.ok THEN ParStep(failed(Err("IndexesTooBigForFiles")))
             ELSE IF Len(bed.bytes) # ParDiv4.div4 * ParSidCount + CB_HEADER_U64
             THEN ParStep(failed(Err("IllFormed")))
             ELSE IF pre.errs # {}
             THEN \E k \in pre.errs : ParStep(failed(ErrArg("IidIndexTooBig", k)))
             ELSE ParStep([p EXCEPT !.phase = "pipeline"])

\* A variant the properties must tell from the code:
\* an iterator any worker may pull while another is pulling.
NoIteratorLock(w) == TRUE

\* par_bridge: the iterator is behind a lock, one worker pulls at a time
IteratorFree(w) == par.lock = 0

\* a worker takes the iterator to pull the next item, unless try_for_each
\* has seen an error or the iterator is exhausted
Take(w) ==
    /\ par.call = "read"
    /\ par.phase = "pipeline"
    /\ par.pc[w] = "idle"
    /\ IteratorFree(w)
    /\ ~par.stopped
    /\ par.next <= Len(par.sid_index)
    /\ ParStep([par EXCEPT !.lock = w, !.pc[w] = "seek"])

\* the map closure, first half: the signed position made unsigned, or the
\* item Err(SidIndexTooBig), then buf_reader.seek; nothing when the
\* iterator is exhausted
Seek(w) ==
    /\ par.call = "read"
    /\ par.pc[w] = "seek"
    /\ LET k == par.sid_index[par.next]
       IN  IF par.next > Len(par.sid_index)
           THEN ParStep([par EXCEPT !.lock = 0, !.pc[w] = "idle"])
           ELSE IF InUpper(k, ParSidCount) \/ InLower(k, ParSidCount)
           THEN ParStep([par EXCEPT
                    !.cursor = ToUnsigned(k, ParSidCount) * ParDiv4.div4 + CB_HEADER_U64,
                    !.pc[w] = "read"])
           ELSE ParStep([par EXCEPT
                    !.item[w] = [ok |-> FALSE, bytes |-> <<>>, col |-> par.next, err |-> k],
                    !.next = par.next + 1, !.lock = 0, !.pc[w] = "decode"])

\* the map closure, second half: buf_reader.read_exact of one block from
\* the position of the reader; then the zip with the next output column
ReadBlock(w) ==
    /\ par.call = "read"
    /\ par.pc[w] = "read"
    /\ ParStep([par EXCEPT
           !.item[w] = [ok |-> TRUE,
                        bytes |-> SubSeq(bed.bytes, par.cursor + 1,
                                         par.cursor + ParDiv4.div4),
                        col |-> par.next, err |-> 0],
           !.cursor = par.cursor + ParDiv4.div4, !.reads = par.reads + 1,
           !.next = par.next + 1, !.lock = 0, !.pc[w] = "decode"])

\* the try_for_each closure: the block decoded into its column, or the error
\* passed on
Decode(w) ==
    /\ par.call = "read"
    /\ par.pc[w] = "decode"
    /\ LET it == par.item[w]
           column == [i \in 1..par.val.nrows |->
                         DecodeCell(it.bytes, ParPre, ParTable, i)]
       IN  IF it.ok
           THEN ParStep([par EXCEPT
                    !.val.a = [i \in 1..par.val.nrows |->
                                  [par.val.a[i] EXCEPT ![it.col] = column[i]]],
                    !.decoded = Append(par.decoded, it.col),
                    !.item[w] = NoItem, !.pc[w] = "idle"])
           ELSE ParStep([par EXCEPT !.errs = par.errs \cup {it.err}, !.stopped = TRUE,
                                    !.item[w] = NoItem, !.pc[w] = "idle"])

\* try_for_each returns: every worker is idle, and the iterator is
\* exhausted or an error was seen
FinishRead ==
    /\ par.call = "read"
    /\ par.phase = "pipeline"
    /\ \A w \in Workers : par.pc[w] = "idle"
    /\ par.stopped \/ par.next > Len(par.sid_index)
    /\ IF par.errs = {} THEN ParStep([par EXCEPT !.phase = "done", !.res = Ok])
       ELSE \E k \in par.errs :
                ParStep([par EXCEPT !.phase = "done", !.res = ErrArg("SidIndexTooBig", k)])

NextParRead ==
    \/ BeginRead
    \/ \E w \in Workers : Take(w) \/ Seek(w) \/ ReadBlock(w) \/ Decode(w)
    \/ FinishRead

SpecParRead == InitParRead /\ [][NextParRead]_vars

\* the packed block of the file at offset 3 + block_size * position
BlockAt(position) ==
    SubSeq(bed.bytes, CB_HEADER_USIZE + ParDiv4.div4 * position + 1,
           CB_HEADER_USIZE + ParDiv4.div4 * (position + 1))

\* C24: for every interleaving of the workers that pull the seek-and-read
\* producer and decode blocks, a successful read leaves in output column j
\* exactly the decode of the packed block at offset
\* 3 + block_size * position(sid_index[j]); no schedule binds a block to
\* another column or mixes the seek of one column with the read of another.
ReadOrdering ==
    /\ \A w \in Workers :
           (par.call = "read" /\ par.pc[w] = "decode" /\ par.item[w].ok)
           => /\ par.item[w].col \in 1..Len(par.sid_index)
              /\ par.item[w].bytes
                     = BlockAt(Resolved(par.sid_index[par.item[w].col], ParSidCount))
    /\ (par.call = "read" /\ par.phase = "done" /\ par.res = Ok)
       => \A j \in 1..Len(par.sid_index) : \A i \in 1..Len(par.iid_index) :
              par.val.a[i][j] =
                  CodeValue(BlockCode(bed.bytes, ParDiv4.div4,
                                      Resolved(par.sid_index[j], ParSidCount),
                                      Resolved(par.iid_index[i], ParIidCount)),
                            TRUE, NaN)

\* a read of the last and the first column succeeded; the second output
\* column was decoded before the first, and the two differ
ReadOrderingWitness ==
    /\ par.call = "read"
    /\ par.phase = "done"
    /\ par.res = Ok
    /\ par.sid_index = <<-1, 0>>
    /\ par.decoded = <<2, 1>>
    /\ par.val.a[1][1] # par.val.a[1][2]

\* the read has failed on a position outside the axis
ReadFailedWith(kind) ==
    /\ par.call = "read"
    /\ par.phase = "done"
    /\ par.res.kind = kind

\* no block was read and no column of the output was written
NothingAccessed ==
    /\ par.reads = 0
    /\ par.decoded = <<>>
    /\ par.val = DefaultArray(Len(par.iid_index), Len(par.sid_index))

\* C26: both index arrays are checked against R and C before any data is
\* accessed: a read that fails with IidIndexTooBig or SidIndexTooBig has read
\* no packed block and has written no cell of the output.
BoundsChecksFirst ==
    (ReadFailedWith("IidIndexTooBig") \/ ReadFailedWith("SidIndexTooBig"))
    => NothingAccessed

\* the part that holds: the row positions are checked before the pipeline
\* starts
RowChecksFirst == ReadFailedWith("IidIndexTooBig") => NothingAccessed

\* a read of a good column followed by a position past the axis has failed
\* with SidIndexTooBig after the block of the good column was read and its
\* output column written
ColumnCheckedAfterRead ==
    /\ ReadFailedWith("SidIndexTooBig")
    /\ par.sid_index = <<0, ParSidCount>>
    /\ par.res.arg = ParSidCount
    /\ par.reads = 1
    /\ par.decoded = <<1>>
    /\ par.val # DefaultArray(Len(par.iid_index), Len(par.sid_index))

\* a read with a row position past the axis has failed before any access
RowCheckedBeforeRead ==
    /\ ReadFailedWith("IidIndexTooBig")
    /\ par.res.arg = ParIidCount
    /\ Len(par.sid_index) > 0
    /\ NothingAccessed

----------------------------------------------------------------------------
(* SpecParWrite: write_internal step by step.  The header is written, the  *)
(* columns of the matrix are handed in order to the workers of             *)
(* parallel_map_scoped, each worker packs its column at its own pace, and  *)
(* the calling thread takes the packed blocks from the parallel map, which *)
(* yields them in the order of its input, and appends each to the file.    *)

ParRows == MaxSid

\* matrices of MaxCount columns that differ, one of them with a value that
\* cannot be encoded
ParMatrices ==
    LET good == {PatternMatrix(ParRows, MaxCount, 1, s, NaN) : s \in 0..3}
    IN  good \cup {[m EXCEPT !.a[1][2] = 3] : m \in good}

InitParWrite == InitEmpty

\* File::create, the three header bytes
BeginWrite ==
    /\ par.phase = "none"
    /\ \E val \in ParMatrices :
           /\ par' = [NoPar EXCEPT !.call = "write", !.phase = "pipeline", !.val = val]
           /\ bed' = BedOf(<<BED_FILE_MAGIC1, BED_FILE_MAGIC2, 1>>)
    /\ UNCHANGED <<fam, bim, handle, wr, bd, rd, ac, ix>>

\* the next column of val.axis_iter(Axis(1)) handed to a free worker
Dispatch(w) ==
    /\ par.call = "write"
    /\ par.phase = "pipeline"
    /\ par.pc[w] = "idle"
    /\ par.next <= par.val.ncols
    /\ ParStep([par EXCEPT !.item[w] = [NoItem EXCEPT !.col = par.next],
                           !.next = par.next + 1, !.pc[w] = "encode"])

\* the closure of parallel_map_scoped: one column packed into a block, or
\* BadValue
Encode(w) ==
    /\ par.call = "write"
    /\ par.phase = "pipeline"
    /\ par.pc[w] = "encode"
    /\ LET col == par.item[w].col
           block == PackedBlock(par.val, col, CeilDiv4(par.val.nrows), TRUE, NaN)
       IN  ParStep([par EXCEPT
               !.ready = par.ready \cup {[col |-> col, ok |-> block.ok, bytes |-> block.bytes]},
               !.decoded = Append(par.decoded, col),
               !.item[w] = NoItem, !.pc[w] = "idle"])

\* A variant the properties must tell from the code:
\* a parallel map that yields the blocks as the workers finish them.
AsFinished(r) == TRUE

\* parallel_map_scoped yields the results in the order of its input: the
\* next one is that of the column after the last one taken
InInputOrder(r) == r.col = par.cursor + 1

\* the try_for_each closure on the calling thread: the next block appended
\* to the file, or the error returned
WriteNext ==
    /\ par.call = "write"
    /\ par.phase = "pipeline"
    /\ \E r \in par.ready :
           /\ InInputOrder(r)
           /\ IF r.ok
              THEN /\ bed' = BedOf(bed.bytes \o r.bytes)
                   /\ par' = [par EXCEPT !.ready = par.ready \ {r},
                                         !.cursor = par.cursor + 1]
              ELSE /\ bed' = bed
                   /\ par' = [par EXCEPT !.phase = "done", !.res = Err("BadValue")]
    /\ UNCHANGED <<fam, bim, handle, wr, bd, rd, ac, ix>>

\* try_for_each returns Ok: every block was taken
FinishWrite ==
    /\ par.call = "write"
    /\ par.phase = "pipeline"
    /\ par.cursor = par.val.ncols
    /\ ParStep([par EXCEPT !.phase = "done", !.res = Ok])

NextParWrite ==
    \/ BeginWrite
    \/ \E w \in Workers : Dispatch(w) \/ Encode(w)
    \/ WriteNext
    \/ FinishWrite

SpecParWrite == InitParWrite /\ [][NextParWrite]_vars

\* the code on disk of a cell for the value of the matrix, counting allele 1
CodeOfValue(v) ==
    IF ValEq(v, 0) THEN 3 ELSE IF ValEq(v, 1) THEN 2 ELSE IF ValEq(v, 2) THEN 0 ELSE 1

\* C25: for every schedule of the encoding workers, a successful write
\* appends the packed blocks to the .bed file in matrix column order: block
\* j of the file (bytes 3 + j*ceil(R/4) up to 3 + (j+1)*ceil(R/4)) is the
\* encoding of matrix column j.
WriteOrdering ==
    /\ (par.call = "write" /\ par.phase = "done" /\ par.res = Ok)
       => /\ Len(bed.bytes) = CB_HEADER_USIZE + CeilDiv4(par.val.nrows) * par.val.ncols
          /\ \A j \in 1..par.val.ncols : \A i \in 1..par.val.nrows :
                 BlockCode(bed.bytes, CeilDiv4(par.val.nrows), j - 1, i - 1)
                     = CodeOfValue(par.val.a[i][j])
    /\ (par.call = "write" /\ par.phase = "pipeline")
       => \A j \in 1..par.cursor : \A i \in 1..par.val.nrows :
              BlockCode(bed.bytes, CeilDiv4(par.val.nrows), j - 1, i - 1)
                  = CodeOfValue(par.val.a[i][j])

\* a write succeeded in which the second column was packed before the
\* first; the first two blocks of the file differ
WriteOrderingWitness ==
    /\ par.call = "write"
    /\ par.phase = "done"
    /\ par.res = Ok
    /\ par.decoded[1] = 2
    /\ par.decoded[2] = 1
    /\ bed.bytes[4] # bed.bytes[5]

----------------------------------------------------------------------------
(* The error of a position out of range, by orientation of the file.       *)

\* the positions of the last read that are outside their axis
BadRows == OutOfRange(PositionList(rd.iid_index, rd.iid_count.v), rd.iid_count.v)
BadColumns == OutOfRange(PositionList(rd.sid_index, rd.sid_count.v), rd.sid_count.v)

\* a read with positions out of range on one axis only fails with the error
\* of that axis, carrying one of them; mode is the orientation byte
ErrorNamesAxis(mode) ==
    (rd.called /\ rd.api = "Bed::read_with_options" /\ rd.bed.bytes[3] = mode)
    => /\ (BadRows # {} /\ BadColumns = {})
              => rd.res.kind = "IidIndexTooBig" /\ rd.res.arg \in BadRows
       /\ (BadColumns # {} /\ BadRows = {})
              => rd.res.kind = "SidIndexTooBig" /\ rd.res.arg \in BadColumns

\* C30: for a file of orientation 0 as for one of orientation 1, a row
\* position out of range fails with IidIndexTooBig and a column position out
\* of range with SidIndexTooBig, each carrying the offending value.
ErrorAxisAnyOrientation == ErrorNamesAxis(0) /\ ErrorNamesAxis(1)

\* the part that holds: files of orientation 1
ErrorAxisOrientationOne == ErrorNamesAxis(1)

\* a read of a file of orientation 0 with a column position out of range
\* and every row position in range ended in IidIndexTooBig of that position
ColumnErrorNamesRows ==
    /\ rd.called /\ rd.api = "Bed::read_with_options"
    /\ rd.bed.bytes[3] = 0
    /\ BadRows = {}
    /\ BadColumns # {}
    /\ rd.res.kind = "IidIndexTooBig"
    /\ rd.res.arg \in BadColumns

\* the same read of a file of orientation 1 ended in SidIndexTooBig
ColumnErrorNamesColumns ==
    /\ rd.called /\ rd.api = "Bed::read_with_options"
    /\ rd.bed.bytes[3] = 1
    /\ BadRows = {}
    /\ BadColumns # {}
    /\ rd.res.kind = "SidIndexTooBig"
    /\ rd.res.arg \in BadColumns

----------------------------------------------------------------------------
(* Empty strided slices with a negative step.                              *)

\* the evaluated index is a slice with a negative step whose resolved
\* bounds are equal
EmptyReversedSlice ==
    /\ ix.called
    /\ ix.index.kind = "NDSliceInfo"
    /\ ix.index.elem = "Slice"
    /\ ix.index.step < 0
    /\ RangeNdSlice_new(ix.index, ix.count).res.kind = "Ok"
    /\ RangeNdSlice_new(ix.index, ix.count).start
           = RangeNdSlice_new(ix.index, ix.count).end

\* materialization returned the empty list, as len() says
ReturnsEmpty ==
    /\ ix.to_vec = [res |-> Ok, vec |-> <<>>]
    /\ ix.len = [res |-> Ok, len |-> 0]

\* C29: for every slice with a negative step whose resolved bounds satisfy
\* start == end, including start == end == 0, materialization terminates
\* and returns the empty list, in agreement with len() == 0, and never
\* produces a position outside [0, N).
EmptyReversedSliceTerminates == EmptyReversedSlice => ReturnsEmpty

\* the part that holds: the same for start == end > 0
EmptyReversedSliceAboveZero ==
    (EmptyReversedSlice /\ RangeNdSlice_new(ix.index, ix.count).end > 0) => ReturnsEmpty

\* s![..;-1] against count 0: len() is 0 and materialization does not return
ReversedSliceOfNothing ==
    /\ EmptyReversedSlice
    /\ ix.index = IndexNDSliceInfo(0, None, -1)
    /\ ix.count = 0
    /\ ix.len = [res |-> Ok, len |-> 0]
    /\ ix.to_vec.res.kind = "Panic"

\* s![1..1;-1]: the empty list
EmptyReversedSliceAtOne ==
    /\ EmptyReversedSlice
    /\ ix.index = IndexNDSliceInfo(1, Some(1), -1)
    /\ ix.count = MaxCount
    /\ ReturnsEmpty

----------------------------------------------------------------------------
(* Lazy parsing of the sidecars, over the handles of SpecSkip.             *)

\* the fields of the sidecar the field is in, and that sidecar as it was at
\* the last access
SidecarFields(field) ==
    IF field \in Range(FamFields) THEN Range(FamFields) ELSE Range(BimFields)
SidecarAtAccess(field) == IF field \in Range(FamFields) THEN ac.fam ELSE ac.bim

\* the last call was the accessor of a field that was not skipped and not
\* present, and the sidecar was parsed
FirstAccess ==
    /\ ac.called
    /\ ac.op \in MetadataFields
    /\ ac.op \notin ac.before.skip_set
    /\ ~ac.before.metadata[ac.op].some
    /\ ac.res.kind \in {"Ok", "InconsistentCount"}

\* after a first access every non-skipped field of the sidecar is present:
\* the ones that were present as they were, the others as the file has
\* them; skipped fields and the fields of the other sidecar are as before
FirstAccessParsesAll ==
    FirstAccess =>
        \A g \in MetadataFields :
            IF g \in SidecarFields(ac.op) /\ g \notin ac.before.skip_set
                 /\ ~ac.before.metadata[g].some
            THEN handle.metadata[g] = SomeArr(SidecarAtAccess(ac.op).lines, "file")
            ELSE handle.metadata[g] = ac.before.metadata[g]

\* no step changes a field that is present in the handle
PresentFieldKept ==
    handle.built =>
        \A f \in MetadataFields :
            handle.metadata[f].some => handle'.metadata[f] = handle.metadata[f]

\* C27: the first access to an unknown, non-skipped field makes all
\* non-skipped fields of that sidecar present at once, and a field already
\* present (supplied or parsed earlier) is never replaced or changed by any
\* later operation on the handle.
LazyParse == []FirstAccessParsesAll /\ [][PresentFieldKept]_vars

\* iid was accessed on a handle with fid given and sex skipped: iid and the
\* other .fam fields came from the file at once, fid is the given array, sex
\* is still absent
LazyParseWitness ==
    /\ FirstAccess
    /\ ac.op = "iid"
    /\ ac.res.kind = "Ok"
    /\ ac.before.skip_set = {"sex"}
    /\ ac.before.metadata["fid"] = SomeArr(2, "given")
    /\ handle.metadata["fid"] = SomeArr(2, "given")
    /\ handle.metadata["iid"] = SomeArr(2, "file")
    /\ handle.metadata["pheno"] = SomeArr(2, "file")
    /\ ~handle.metadata["sex"].some
    /\ ~handle.metadata["sid"].some

----------------------------------------------------------------------------
(* SpecDiv4: try_div_4 for an unsigned type of maximum TMax, as u8.        *)

TMax == 255

\* counts up to past what the type holds four to a byte, headers of the type
Div4IidCounts == 0..(4 * TMax + 5)
Div4SidCounts == 0..(TMax + 1)
Div4Headers == {0, CB_HEADER_U64, TMax}

InitDiv4 == InitEmpty

\* try_div_4::<T>(in_iid_count, in_sid_count, cb_header)
TryDiv4Op ==
    /\ ~ix.called
    /\ \E in_iid_count \in Div4IidCounts, in_sid_count \in Div4SidCounts,
          cb_header \in Div4Headers :
           ix' = [called |-> TRUE, in_iid_count |-> in_iid_count,
                  in_sid_count |-> in_sid_count, cb_header |-> cb_header,
                  out |-> try_div_4(in_iid_count, in_sid_count, cb_header, TMax)]
    /\ UNCHANGED <<bed, fam, bim, handle, wr, bd, rd, ac, par>>

NextDiv4 == TryDiv4Op

SpecDiv4 == InitDiv4 /\ [][NextDiv4]_vars

\* ceil(n / 4)
QuarterUp(n) == (n + 3) \div 4

\* C28: try_div_4 fails with IndexesTooBigForFiles exactly when
\* ceil(iid_count/4) or sid_count does not fit the type or
\* header + ceil(iid_count/4) * sid_count exceeds its maximum; otherwise it
\* returns ceil(iid_count/4), which is 0 when iid_count is 0.
SizeOverflowGuard ==
    ix.called =>
        LET d == QuarterUp(ix.in_iid_count)
            too_big == \/ d > TMax
                       \/ ix.in_sid_count > TMax
                       \/ ix.cb_header + d * ix.in_sid_count > TMax
        IN  /\ ix.out.ok = ~too_big
            /\ ix.out.ok => ix.out.div4 = d
            /\ (ix.out.ok /\ ix.in_iid_count = 0) => ix.out.div4 = 0

\* the largest file the type can address is accepted
SizeOverflowGuardWitness ==
    /\ ix.called
    /\ ix.cb_header = CB_HEADER_U64
    /\ ix.cb_header + QuarterUp(ix.in_iid_count) * ix.in_sid_count = TMax
    /\ ix.in_sid_count > 1
    /\ ix.in_iid_count % 4 = 1
    /\ ix.out.ok
    /\ ix.out.div4 = QuarterUp(ix.in_iid_count)

\* one more column is refused though both counts fit the type
SizeOverflowRefused ==
    /\ ix.called
    /\ ix.cb_header = CB_HEADER_U64
    /\ ix.in_sid_count <= TMax
    /\ QuarterUp(ix.in_iid_count) <= TMax
    /\ ix.cb_header + QuarterUp(ix.in_iid_count) * ix.in_sid_count = TMax + 1
    /\ ~ix.out.ok

====
